---- MODULE Spec2Model ----
(***************************************************************************)
(* Model of the odds cache (services/oddsCache.js, rate-limited and        *)
(* quota-free variants) and of the server that drives and decorates it     *)
(* (server.js).                                                            *)
(*                                                                         *)
(* The program runs on one cooperative event loop.  A task (an async call  *)
(* chain started by a trigger) runs without interruption until it reaches  *)
(* an upstream request (await fetch) or a pacing delay (await sleep); only *)
(* there can other tasks, timers and requests interleave.  Each action of  *)
(* the model is one such run: it resumes a task (or starts one) and        *)
(* executes the code, statement by statement (Step1), up to the next       *)
(* suspension point (Run).                                                 *)
(***************************************************************************)
EXTENDS Integers, Sequences, FiniteSets, TLC

VARIABLES
    variant,    \* "bounded" (rate-limited provider) or "free" (quota-free provider)
    hasKey,     \* quota-free variant: OPTIC_API_KEY is configured
    now,        \* Date.now(), in units of half an hour
    cache,      \* the OddsCache singleton
    tasks,      \* the async call chains in flight, one per slot
    slots,      \* the slots in use: how many chains may be in flight at once
    quota,      \* number of requests (refresh triggers, status requests) still to arrive
    booted,     \* httpServer.listen callback has run
    decorated,  \* the server installs the broadcasting wrappers (WebSocket server)
    out,        \* events published / responses sent by the last step
    calls,      \* upstream requests issued by the last step
    rooms       \* the rooms each connected socket has joined

vars == <<variant, hasKey, decorated, now, cache, tasks, slots, quota, booted, out, calls,
          rooms>>

----------------------------------------------------------------------------
(* Bounds of the model *)

MaxTime == 1            \* hours the clock may advance
MaxTriggers == 3        \* requests that arrive while the clock is stopped
MaxFairTriggers == 2     \* triggers and status requests of a run of SpecFair
MaxDirectCalls == 3      \* method calls on the cache object in SpecCache
MaxFreeTriggers == 1     \* refresh cycles in a run of SpecFree
MaxTimedTriggers == 2   \* requests that arrive while the clock runs
MaxServeRequests == 3    \* requests and triggers in a run of SpecServe
MaxKeyCalls == 2         \* method calls on the cache object in SpecKey
MaxPushRequests == 3     \* triggers and socket messages in a run of SpecPush

(* Program constants, in model units (one time unit = one hour) *)

MAX_CALLS_PER_HOUR == 3
hourMs == 1
threeDays == 72

NBA_BOOKMAKERS == <<"Kambi", "Bet365">>
FOOTBALL_BOOKMAKERS == <<"Pinnacle">>
FOOTBALL_LEAGUES == <<"epl">>
OPTIC_FOOTBALL_LEAGUES == <<"epl", "laliga">>   \* the list of the quota-free variant
Leagues(v) == IF v = "bounded" THEN FOOTBALL_LEAGUES ELSE OPTIC_FOOTBALL_LEAGUES

Slots == {1, 2}

\* the sockets that may be connected, and the rooms of the sports
Clients == {1, 2}
Sports == {"nba", "football"}

----------------------------------------------------------------------------
(* Values *)

NoTime == -1

Desc(what, id, book) == [what |-> what, id |-> id, book |-> book]
NoDesc == Desc("none", "none", "none")

\* lastError = {time, message, url}; null is NoError (the time is not modelled)
NoError == [message |-> "none", url |-> NoDesc]

NullEvent == [id |-> "null", date |-> 0]
N1 == [id |-> "n1", date |-> 1]
NFar == [id |-> "n9", date |-> 500]
F1 == [id |-> "f1", date |-> 1]
F2 == [id |-> "f2", date |-> 2]
FFar == [id |-> "f9", date |-> 500]

\* event arrays the upstream may answer with
NbaEventLists == { <<>>, <<N1>>, <<NFar, N1>>, <<NullEvent>> }
FootballEventLists == { <<>>, <<FFar, F2, F1>> }

\* an odds snapshot: the bookmaker keys it holds (the payload copied from the
\* response, home/away/date/cachedAt, is not modelled); NoSnapshot is "no value"
NoSnapshot == [bookmakers |-> {"none"}]

\* value returned by fetchWithRateLimit / fetchApi: null, or the parsed body
NullData == [null |-> TRUE, array |-> FALSE, events |-> <<>>, books |-> {}]
Data(array, events, books) ==
    [null |-> FALSE, array |-> array, events |-> events, books |-> books]

\* outcome of one upstream request
Response(kind, data) == [kind |-> kind, data |-> data]

EventResponses(lists) ==
    { Response("http", NullData), Response("net", NullData),
      Response("ok", Data(FALSE, <<>>, {})) }
    \cup { Response("ok", Data(TRUE, l, {})) : l \in lists }

OddsResponses(books) ==
    { Response("http", NullData) }
    \cup { Response("ok", Data(FALSE, <<>>, b)) : b \in SUBSET books }

SeqToSet(s) == { s[k] : k \in 1..Len(s) }

----------------------------------------------------------------------------
(* The cache object *)

NewCache(t) ==
    [ nbaEvents |-> <<>>,
      nbaOdds |-> << >>,
      footballEvents |-> << >>,
      footballOdds |-> << >>,
      apiCallsThisHour |-> 0,      \* apiCallCount in the quota-free variant
      hourStartTime |-> t,
      lastNbaEventsUpdate |-> NoTime,
      lastNbaOddsUpdate |-> NoTime,
      lastFootballEventsUpdate |-> << >>,
      lastFootballOddsUpdate |-> NoTime,
      isRefreshing |-> FALSE,
      lastError |-> NoError ]

\* obj[key] = val on a plain object used as a map
Put(obj, key, val) ==
    [k \in (DOMAIN obj) \cup {key} |-> IF k = key THEN val ELSE obj[k]]

\* obj[key] || dflt
Get(obj, key, dflt) == IF key \in DOMAIN obj THEN obj[key] ELSE dflt

getNbaEvents(c) ==
    [events |-> c.nbaEvents, lastUpdate |-> c.lastNbaEventsUpdate,
     count |-> Len(c.nbaEvents)]

\* this.footballOdds[eventId] || null
getFootballOdds(c, eventId) == Get(c.footballOdds, eventId, NoSnapshot)

getAllNbaOdds(c) ==
    [odds |-> c.nbaOdds, lastUpdate |-> c.lastNbaOddsUpdate,
     eventCount |-> Cardinality(DOMAIN c.nbaOdds)]

\* getFootballEvents(leagueSlug): one league ("" is no argument: all leagues)
getFootballEvents(c, leagueSlug) ==
    IF leagueSlug # ""
    THEN [events |-> [l \in {leagueSlug} |-> Get(c.footballEvents, leagueSlug, <<>>)],
          lastUpdate |-> [l \in {leagueSlug} |->
                            Get(c.lastFootballEventsUpdate, leagueSlug, NoTime)],
          leagues |-> {leagueSlug}]
    ELSE [events |-> c.footballEvents,
          lastUpdate |-> c.lastFootballEventsUpdate,
          leagues |-> DOMAIN c.footballEvents]

getAllFootballOdds(c) ==
    [odds |-> c.footballOdds, lastUpdate |-> c.lastFootballOddsUpdate,
     eventCount |-> Cardinality(DOMAIN c.footballOdds)]

\* as getNbaOdds, but a snapshot without bookmakers counts as absent
getNbaOddsEmptyIsAbsent(c, eventId) ==
    IF eventId \in DOMAIN c.nbaOdds /\ c.nbaOdds[eventId].bookmakers # {}
    THEN c.nbaOdds[eventId]
    ELSE NoSnapshot

\* this.nbaOdds[eventId] || null
getNbaOdds(c, eventId) == Get(c.nbaOdds, eventId, NoSnapshot)

\* as CheckRateLimit, but the window start is not moved with the counter
CheckRateLimitPartial(c, t) ==
    LET c1 == IF t - c.hourStartTime >= hourMs
              THEN [c EXCEPT !.apiCallsThisHour = 0]
              ELSE c
    IN  [c |-> c1, ok |-> c1.apiCallsThisHour < MAX_CALLS_PER_HOUR]

CheckRateLimit(c, t) ==
    LET c1 == IF t - c.hourStartTime >= hourMs
              THEN [c EXCEPT !.apiCallsThisHour = 0, !.hourStartTime = t]
              ELSE c
    IN  [c |-> c1, ok |-> c1.apiCallsThisHour < MAX_CALLS_PER_HOUR]

GetRemainingCalls(c, t) ==
    LET r == CheckRateLimit(c, t)
    IN  [c |-> r.c, remaining |-> MAX_CALLS_PER_HOUR - r.c.apiCallsThisHour]

NoCache == NewCache(NoTime)

NoStatus ==
    [apiCallsThisHour |-> -1, remainingCalls |-> -1, isRefreshing |-> FALSE,
     lastError |-> NoError]

\* as GetStatus, but the football leagues are filled in before they are listed
GetStatusFillsLeagues(c, t, v) ==
    LET r == IF v = "bounded" THEN GetRemainingCalls(c, t)
             ELSE [c |-> c, remaining |-> -1]
    IN  [c |-> [r.c EXCEPT !.footballEvents =
                   Put(@, FOOTBALL_LEAGUES[1], Get(@, FOOTBALL_LEAGUES[1], <<>>))],
         status |-> [apiCallsThisHour |-> c.apiCallsThisHour,
                     remainingCalls |-> r.remaining,
                     isRefreshing |-> c.isRefreshing,
                     lastError |-> c.lastError]]

\* getStatus: the object literal reads apiCallsThisHour before it calls
\* getRemainingCalls (bounded variant), which may reset the window
GetStatus(c, t, v) ==
    IF v = "bounded"
    THEN LET r == GetRemainingCalls(c, t)
         IN  [c |-> r.c,
              status |-> [apiCallsThisHour |-> c.apiCallsThisHour,
                          remainingCalls |-> r.remaining,
                          isRefreshing |-> c.isRefreshing,
                          lastError |-> c.lastError]]
    ELSE [c |-> c,
          status |-> [apiCallsThisHour |-> c.apiCallsThisHour,
                      remainingCalls |-> -1,
                      isRefreshing |-> c.isRefreshing,
                      lastError |-> c.lastError]]

\* Array.prototype.sort((a, b) => new Date(a.date) - new Date(b.date)): stable
RECURSIVE InsertByDate(_, _)
InsertByDate(e, s) ==
    IF s = <<>> THEN <<e>>
    ELSE IF e.date < s[1].date THEN <<e>> \o s
    ELSE <<s[1]>> \o InsertByDate(e, Tail(s))

RECURSIVE SortByDate(_)
SortByDate(s) ==
    IF s = <<>> THEN <<>>
    ELSE InsertByDate(s[Len(s)], SortByDate(SubSeq(s, 1, Len(s) - 1)))

\* filter(e => new Date(e.date) <= threeDaysFromNow)
Upcoming(s, t) == SelectSeq(s, LAMBDA e : e.date <= t + threeDays)

\* the quota-free variant maps each fixture to the cached event shape
Transform(s) == [k \in 1..Len(s) |-> [id |-> s[k].id, date |-> s[k].date]]

RECURSIVE AllFootballEvents(_, _, _)
AllFootballEvents(c, leagues, k) ==
    IF k > Len(leagues) THEN <<>>
    ELSE Get(c.footballEvents, leagues[k], <<>>)
         \o AllFootballEvents(c, leagues, k + 1)

----------------------------------------------------------------------------
(* Call chains.  A chain is a stack of frames; st is the machine state    *)
(* of the chain being run together with the cache it works on.            *)

Frame(fn, arg) ==
    [fn |-> fn, pc |-> "start", arg |-> arg, i |-> 0, list |-> <<>>,
     acc |-> NoSnapshot]

NoTask ==
    [stack |-> <<>>, wait |-> "idle", kind |-> "none"]

Top(st) == st.stack[Len(st.stack)]

Goto(st, pc) == [st EXCEPT !.stack[Len(st.stack)].pc = pc]

SetTop(st, f) == [st EXCEPT !.stack[Len(st.stack)] = f]

\* await callee(...): the caller continues at retpc when the callee returns
Call(st, retpc, frame) ==
    [st EXCEPT !.stack = Append(Goto(st, retpc).stack, frame)]

Return(st, data, snap) ==
    [st EXCEPT !.stack = SubSeq(st.stack, 1, Len(st.stack) - 1),
               !.ret = data, !.snap = snap]

Throw(st, msg) == [st EXCEPT !.exc = msg]

\* await this.sleep(ms): suspend, continue at pc when the timer fires
Sleep(st, pc) == [Goto(st, pc) EXCEPT !.wait = "sleep"]

Ev(room, event, type, id, snap, status, c) ==
    [room |-> room, event |-> event, type |-> type, id |-> id, snap |-> snap,
     status |-> status, cache |-> c]

Emit(st, e) == [st EXCEPT !.out = Append(st.out, e)]

\* the budget gate of the loops: only the bounded variant has one
LoopCheck(st) ==
    IF st.variant = "bounded"
    THEN CheckRateLimit(st.c, st.now)
    ELSE [c |-> st.c, ok |-> TRUE]

\* this.<method>: the wrapper where server.js has installed one
Method(st, name) ==
    IF ~st.decorated THEN name
    ELSE CASE name = "refreshAll" -> "refreshAllW"
           [] name = "refreshNbaOdds" -> "refreshNbaOddsW"
           [] name = "refreshFootballOdds" -> "refreshFootballOddsW"
           [] name = "fetchNbaOddsForEvent" -> "fetchNbaOddsForEventW"
           [] name = "fetchFootballOddsForEvent" -> "fetchFootballOddsForEventW"
           [] OTHER -> name

----------------------------------------------------------------------------
(* The cache's methods, one operator per method, one case per program     *)
(* point.  f is the frame being executed.                                 *)

\* as fetchWithRateLimit, but the call is counted when the response arrives
\* as fetchWithRateLimit, but a request is counted when it has succeeded
fetchWithRateLimitCountsSuccess(st, f) ==
    IF f.pc = "start"
    THEN IF st.variant = "bounded"
         THEN LET r == CheckRateLimit(st.c, st.now)
              IN  IF ~r.ok
                  THEN Return([st EXCEPT !.c = r.c], NullData, NoSnapshot)
                  ELSE [Goto(st, "await") EXCEPT
                          !.c = r.c,
                          !.calls = Append(st.calls, f.arg),
                          !.wait = "io"]
         ELSE IF ~st.hasKey
              THEN Return([st EXCEPT !.c.lastError =
                              [message |-> "API key not configured",
                               url |-> NoDesc]],
                          NullData, NoSnapshot)
              ELSE [Goto(st, "await") EXCEPT
                      !.calls = Append(st.calls, f.arg),
                      !.wait = "io"]
    ELSE IF st.resp.kind = "ok"
         THEN Return([st EXCEPT !.c.apiCallsThisHour = @ + 1],
                     st.resp.data, NoSnapshot)
         ELSE Return([st EXCEPT !.c.lastError =
                         [message |-> st.resp.kind, url |-> f.arg]],
                     NullData, NoSnapshot)

fetchWithRateLimitLateCount(st, f) ==
    IF f.pc = "start"
    THEN LET r == CheckRateLimit(st.c, st.now)
         IN  IF ~r.ok
             THEN Return([st EXCEPT !.c = r.c], NullData, NoSnapshot)
             ELSE [Goto(st, "await") EXCEPT
                     !.c = r.c,
                     !.calls = Append(st.calls, f.arg),
                     !.wait = "io"]
    ELSE IF st.resp.kind = "ok"
         THEN Return([st EXCEPT !.c.apiCallsThisHour = @ + 1],
                     st.resp.data, NoSnapshot)
         ELSE Return([st EXCEPT !.c.apiCallsThisHour = @ + 1,
                                !.c.lastError =
                                   [message |-> st.resp.kind, url |-> f.arg]],
                     NullData, NoSnapshot)

\* as fetchWithRateLimit, but a rejection by the budget is recorded as an error
fetchWithRateLimitRejectIsError(st, f) ==
    IF f.pc = "start"
    THEN IF st.variant = "bounded"
         THEN LET r == CheckRateLimit(st.c, st.now)
              IN  IF ~r.ok
                  THEN Return([st EXCEPT !.c = [r.c EXCEPT !.lastError =
                                  [message |-> "limit", url |-> f.arg]]],
                              NullData, NoSnapshot)
                  ELSE [Goto(st, "await") EXCEPT
                          !.c = [r.c EXCEPT !.apiCallsThisHour = @ + 1],
                          !.calls = Append(st.calls, f.arg),
                          !.wait = "io"]
         ELSE IF ~st.hasKey
              THEN Return([st EXCEPT !.c.lastError =
                              [message |-> "API key not configured",
                               url |-> NoDesc]],
                          NullData, NoSnapshot)
              ELSE [Goto(st, "await") EXCEPT
                      !.c.apiCallsThisHour = @ + 1,
                      !.calls = Append(st.calls, f.arg),
                      !.wait = "io"]
    ELSE \* "await": the request has completed with st.resp
         IF st.resp.kind = "ok"
         THEN Return(st, st.resp.data, NoSnapshot)
         ELSE Return([st EXCEPT !.c.lastError =
                         [message |-> st.resp.kind, url |-> f.arg]],
                     NullData, NoSnapshot)

\* as fetchWithRateLimit, but a failed request is thrown to the caller
fetchWithRateLimitThrows(st, f) ==
    IF f.pc = "start"
    THEN IF st.variant = "bounded"
         THEN LET r == CheckRateLimit(st.c, st.now)
              IN  IF ~r.ok
                  THEN Return([st EXCEPT !.c = r.c], NullData, NoSnapshot)
                  ELSE [Goto(st, "await") EXCEPT
                          !.c = [r.c EXCEPT !.apiCallsThisHour = @ + 1],
                          !.calls = Append(st.calls, f.arg),
                          !.wait = "io"]
         ELSE IF ~st.hasKey
              THEN Return([st EXCEPT !.c.lastError =
                              [message |-> "API key not configured",
                               url |-> NoDesc]],
                          NullData, NoSnapshot)
              ELSE [Goto(st, "await") EXCEPT
                      !.c.apiCallsThisHour = @ + 1,
                      !.calls = Append(st.calls, f.arg),
                      !.wait = "io"]
    ELSE \* "await": the request has completed with st.resp
         IF st.resp.kind = "ok"
         THEN Return(st, st.resp.data, NoSnapshot)
         ELSE Throw([st EXCEPT !.c.lastError =
                        [message |-> st.resp.kind, url |-> f.arg]],
                    st.resp.kind)

\* as fetchWithRateLimit, but a successful request clears lastError
fetchWithRateLimitClearsError(st, f) ==
    IF f.pc = "start"
    THEN IF st.variant = "bounded"
         THEN LET r == CheckRateLimit(st.c, st.now)
              IN  IF ~r.ok
                  THEN Return([st EXCEPT !.c = r.c], NullData, NoSnapshot)
                  ELSE [Goto(st, "await") EXCEPT
                          !.c = [r.c EXCEPT !.apiCallsThisHour = @ + 1],
                          !.calls = Append(st.calls, f.arg),
                          !.wait = "io"]
         ELSE IF ~st.hasKey
              THEN Return([st EXCEPT !.c.lastError =
                              [message |-> "API key not configured",
                               url |-> NoDesc]],
                          NullData, NoSnapshot)
              ELSE [Goto(st, "await") EXCEPT
                      !.c.apiCallsThisHour = @ + 1,
                      !.calls = Append(st.calls, f.arg),
                      !.wait = "io"]
    ELSE \* "await": the request has completed with st.resp
         IF st.resp.kind = "ok"
         THEN Return([st EXCEPT !.c.lastError = NoError], st.resp.data, NoSnapshot)
         ELSE Return([st EXCEPT !.c.lastError =
                         [message |-> st.resp.kind, url |-> f.arg]],
                     NullData, NoSnapshot)

\* as fetchWithRateLimit, but the call is counted before the key is checked
fetchWithRateLimitCountsFirst(st, f) ==
    IF f.pc = "start"
    THEN IF st.variant = "bounded"
         THEN LET r == CheckRateLimit(st.c, st.now)
              IN  IF ~r.ok
                  THEN Return([st EXCEPT !.c = r.c], NullData, NoSnapshot)
                  ELSE [Goto(st, "await") EXCEPT
                          !.c = [r.c EXCEPT !.apiCallsThisHour = @ + 1],
                          !.calls = Append(st.calls, f.arg),
                          !.wait = "io"]
         ELSE IF ~st.hasKey
              THEN Return([st EXCEPT !.c.apiCallsThisHour = @ + 1,
                                     !.c.lastError =
                                        [message |-> "API key not configured",
                                         url |-> NoDesc]],
                          NullData, NoSnapshot)
              ELSE [Goto(st, "await") EXCEPT
                      !.c.apiCallsThisHour = @ + 1,
                      !.calls = Append(st.calls, f.arg),
                      !.wait = "io"]
    ELSE \* "await": the request has completed with st.resp
         IF st.resp.kind = "ok"
         THEN Return(st, st.resp.data, NoSnapshot)
         ELSE Return([st EXCEPT !.c.lastError =
                         [message |-> st.resp.kind, url |-> f.arg]],
                     NullData, NoSnapshot)

\* fetchWithRateLimit (bounded) / fetchApi (quota-free)
fetchWithRateLimit(st, f) ==
    IF f.pc = "start"
    THEN IF st.variant = "bounded"
         THEN LET r == CheckRateLimit(st.c, st.now)
              IN  IF ~r.ok
                  THEN Return([st EXCEPT !.c = r.c], NullData, NoSnapshot)
                  ELSE [Goto(st, "await") EXCEPT
                          !.c = [r.c EXCEPT !.apiCallsThisHour = @ + 1],
                          !.calls = Append(st.calls, f.arg),
                          !.wait = "io"]
         ELSE IF ~st.hasKey
              THEN Return([st EXCEPT !.c.lastError =
                              [message |-> "API key not configured",
                               url |-> NoDesc]],
                          NullData, NoSnapshot)
              ELSE [Goto(st, "await") EXCEPT
                      !.c.apiCallsThisHour = @ + 1,
                      !.calls = Append(st.calls, f.arg),
                      !.wait = "io"]
    ELSE \* "await": the request has completed with st.resp
         IF st.resp.kind = "ok"
         THEN Return(st, st.resp.data, NoSnapshot)
         ELSE Return([st EXCEPT !.c.lastError =
                         [message |-> st.resp.kind, url |-> f.arg]],
                     NullData, NoSnapshot)

\* as fetchNbaEvents, but the odds of events no longer listed are dropped
fetchNbaEventsPrunes(st, f) ==
    IF f.pc = "start"
    THEN Call(st, "l507", Frame("fetchWithRateLimit", Desc("nbaEvents", "", "")))
    ELSE IF ~st.ret.null /\ st.ret.array
         THEN Return([st EXCEPT
                        !.c.nbaEvents = st.ret.events,
                        !.c.lastNbaEventsUpdate = st.now,
                        !.c.nbaOdds =
                           [id \in { e.id : e \in SeqToSet(st.ret.events) }
                                      \cap DOMAIN @ |-> @[id]]],
                     NullData, NoSnapshot)
         ELSE Return(st, NullData, NoSnapshot)

\* as fetchNbaEvents, but the new array is copied into the cached one
\* element by element, with a suspension in between
fetchNbaEventsInPlace(st, f) ==
    IF f.pc = "start"
    THEN Call(st, "l507", Frame("fetchWithRateLimit", Desc("nbaEvents", "", "")))
    ELSE IF f.pc = "l507"
    THEN IF ~st.ret.null /\ st.ret.array /\ st.ret.events # <<>>
         THEN Sleep(SetTop([st EXCEPT !.c.nbaEvents =
                               IF Len(@) <= 1 THEN <<st.ret.events[1]>>
                               ELSE <<st.ret.events[1]>> \o Tail(@)],
                           [f EXCEPT !.list = st.ret.events]), "rest")
         ELSE Return(st, NullData, NoSnapshot)
    ELSE Return([st EXCEPT !.c.nbaEvents = f.list,
                           !.c.lastNbaEventsUpdate = st.now],
                NullData, NoSnapshot)

\* as fetchNbaEvents, but the timestamp is stamped whatever the outcome
fetchNbaEventsStampAlways(st, f) ==
    IF f.pc = "start"
    THEN Call(st, "l507", Frame("fetchWithRateLimit", Desc("nbaEvents", "", "")))
    ELSE IF ~st.ret.null /\ st.ret.array
         THEN Return([st EXCEPT !.c.nbaEvents = st.ret.events,
                                !.c.lastNbaEventsUpdate = st.now],
                     NullData, NoSnapshot)
         ELSE Return([st EXCEPT !.c.lastNbaEventsUpdate = st.now],
                     NullData, NoSnapshot)

fetchNbaEvents(st, f) ==
    IF f.pc = "start"
    THEN Call(st, "l507", Frame("fetchWithRateLimit", Desc("nbaEvents", "", "")))
    ELSE \* "l507"
         IF ~st.ret.null /\ st.ret.array
         THEN IF st.variant = "bounded"
              THEN Return([st EXCEPT !.c.nbaEvents = st.ret.events,
                                     !.c.lastNbaEventsUpdate = st.now],
                          NullData, NoSnapshot)
              ELSE IF NullEvent \in SeqToSet(st.ret.events)
                   THEN Throw(st, "TypeError")     \* event.id of null
                   ELSE Return([st EXCEPT
                                  !.c.nbaEvents = Transform(st.ret.events),
                                  !.c.lastNbaEventsUpdate = st.now],
                               NullData, NoSnapshot)
         ELSE Return(st, NullData, NoSnapshot)

\* as fetchNbaOddsForEvent, but a bookmaker without data empties the snapshot
fetchNbaOddsForEventResetOnFail(st, f) ==
    IF st.variant = "bounded"
    THEN CASE f.pc = "start" ->
                SetTop(st, [f EXCEPT !.pc = "loop", !.i = 1,
                              !.acc = [bookmakers |-> {}]])
           [] f.pc = "loop" ->
                IF f.i > Len(NBA_BOOKMAKERS) THEN Goto(st, "store")
                ELSE LET r == CheckRateLimit(st.c, st.now)
                     IN  IF ~r.ok
                         THEN Goto([st EXCEPT !.c = r.c], "store")
                         ELSE Call([st EXCEPT !.c = r.c], "l526",
                                   Frame("fetchWithRateLimit",
                                         Desc("nbaOdds", f.arg.id, NBA_BOOKMAKERS[f.i])))
           [] f.pc = "l526" ->
                LET b == NBA_BOOKMAKERS[f.i]
                    g == IF ~st.ret.null /\ b \in st.ret.books
                         THEN [f EXCEPT !.acc.bookmakers = @ \cup {b}]
                         ELSE [f EXCEPT !.acc.bookmakers = {}]
                IN  Sleep(SetTop(st, g), "slept")
           [] f.pc = "slept" ->
                SetTop(st, [f EXCEPT !.pc = "loop", !.i = @ + 1])
           [] OTHER -> \* "store"
                Return([st EXCEPT !.c.nbaOdds = Put(@, f.arg.id, f.acc)],
                       NullData, f.acc)
    ELSE CASE f.pc = "start" ->
                Call(SetTop(st, [f EXCEPT !.acc =
                                   [bookmakers |-> {}]]),
                     "l908",
                     Frame("fetchWithRateLimit", Desc("nbaOdds", f.arg.id, "all")))
           [] OTHER -> \* "l908"
                LET acc == IF ~st.ret.null
                           THEN [f.acc EXCEPT !.bookmakers = st.ret.books]
                           ELSE f.acc
                IN  Return([st EXCEPT !.c.nbaOdds = Put(@, f.arg.id, acc)],
                           NullData, acc)

\* as fetchNbaOddsForEvent, but a bookmaker without data ends the loop
fetchNbaOddsForEventFatal(st, f) ==
    IF st.variant = "bounded"
    THEN CASE f.pc = "start" ->
                SetTop(st, [f EXCEPT !.pc = "loop", !.i = 1,
                              !.acc = [bookmakers |-> {}]])
           [] f.pc = "loop" ->
                IF f.i > Len(NBA_BOOKMAKERS) THEN Goto(st, "store")
                ELSE LET r == CheckRateLimit(st.c, st.now)
                     IN  IF ~r.ok
                         THEN Goto([st EXCEPT !.c = r.c], "store")
                         ELSE Call([st EXCEPT !.c = r.c], "l526",
                                   Frame("fetchWithRateLimit",
                                         Desc("nbaOdds", f.arg.id, NBA_BOOKMAKERS[f.i])))
           [] f.pc = "l526" ->
                LET b == NBA_BOOKMAKERS[f.i]
                    g == IF ~st.ret.null /\ b \in st.ret.books
                         THEN [f EXCEPT !.acc.bookmakers = @ \cup {b}]
                         ELSE f
                IN  IF g = f THEN Goto(st, "store")
                    ELSE Sleep(SetTop(st, g), "slept")
           [] f.pc = "slept" ->
                SetTop(st, [f EXCEPT !.pc = "loop", !.i = @ + 1])
           [] OTHER -> \* "store"
                Return([st EXCEPT !.c.nbaOdds = Put(@, f.arg.id, f.acc)],
                       NullData, f.acc)
    ELSE CASE f.pc = "start" ->
                Call(SetTop(st, [f EXCEPT !.acc =
                                   [bookmakers |-> {}]]),
                     "l908",
                     Frame("fetchWithRateLimit", Desc("nbaOdds", f.arg.id, "all")))
           [] OTHER -> \* "l908"
                LET acc == IF ~st.ret.null
                           THEN [f.acc EXCEPT !.bookmakers = st.ret.books]
                           ELSE f.acc
                IN  Return([st EXCEPT !.c.nbaOdds = Put(@, f.arg.id, acc)],
                           NullData, acc)

\* as fetchNbaOddsForEvent, without the budget check of the loop
fetchNbaOddsForEventNoBreak(st, f) ==
    IF st.variant = "bounded"
    THEN CASE f.pc = "start" ->
                SetTop(st, [f EXCEPT !.pc = "loop", !.i = 1,
                              !.acc = [bookmakers |-> {}]])
           [] f.pc = "loop" ->
                IF f.i > Len(NBA_BOOKMAKERS) THEN Goto(st, "store")
                ELSE Call(st, "l526",
                          Frame("fetchWithRateLimit",
                                Desc("nbaOdds", f.arg.id, NBA_BOOKMAKERS[f.i])))
           [] f.pc = "l526" ->
                LET b == NBA_BOOKMAKERS[f.i]
                    g == IF ~st.ret.null /\ b \in st.ret.books
                         THEN [f EXCEPT !.acc.bookmakers = @ \cup {b}]
                         ELSE f
                IN  Sleep(SetTop(st, g), "slept")
           [] f.pc = "slept" ->
                SetTop(st, [f EXCEPT !.pc = "loop", !.i = @ + 1])
           [] OTHER -> \* "store"
                Return([st EXCEPT !.c.nbaOdds = Put(@, f.arg.id, f.acc)],
                       NullData, f.acc)
    ELSE CASE f.pc = "start" ->
                Call(SetTop(st, [f EXCEPT !.acc =
                                   [bookmakers |-> {}]]),
                     "l908",
                     Frame("fetchWithRateLimit", Desc("nbaOdds", f.arg.id, "all")))
           [] OTHER -> \* "l908"
                LET acc == IF ~st.ret.null
                           THEN [f.acc EXCEPT !.bookmakers = st.ret.books]
                           ELSE f.acc
                IN  Return([st EXCEPT !.c.nbaOdds = Put(@, f.arg.id, acc)],
                           NullData, acc)

\* as fetchNbaOddsForEvent, but the snapshot is merged into the stored one
fetchNbaOddsForEventMerges(st, f) ==
    IF st.variant = "bounded"
    THEN CASE f.pc = "start" ->
                SetTop(st, [f EXCEPT !.pc = "loop", !.i = 1,
                              !.acc = [bookmakers |-> {}]])
           [] f.pc = "loop" ->
                IF f.i > Len(NBA_BOOKMAKERS) THEN Goto(st, "store")
                ELSE LET r == CheckRateLimit(st.c, st.now)
                     IN  IF ~r.ok
                         THEN Goto([st EXCEPT !.c = r.c], "store")
                         ELSE Call([st EXCEPT !.c = r.c], "l526",
                                   Frame("fetchWithRateLimit",
                                         Desc("nbaOdds", f.arg.id, NBA_BOOKMAKERS[f.i])))
           [] f.pc = "l526" ->
                LET b == NBA_BOOKMAKERS[f.i]
                    g == IF ~st.ret.null /\ b \in st.ret.books
                         THEN [f EXCEPT !.acc.bookmakers = @ \cup {b}]
                         ELSE f
                IN  Sleep(SetTop(st, g), "slept")
           [] f.pc = "slept" ->
                SetTop(st, [f EXCEPT !.pc = "loop", !.i = @ + 1])
           [] OTHER -> \* "store"
                Return([st EXCEPT !.c.nbaOdds =
                          Put(@, f.arg.id,
                              [bookmakers |->
                                  f.acc.bookmakers \cup
                                  Get(@, f.arg.id, [bookmakers |-> {}]).bookmakers])],
                       NullData, f.acc)
    ELSE CASE f.pc = "start" ->
                Call(SetTop(st, [f EXCEPT !.acc =
                                   [bookmakers |-> {}]]),
                     "l908",
                     Frame("fetchWithRateLimit", Desc("nbaOdds", f.arg.id, "all")))
           [] OTHER -> \* "l908"
                LET acc == IF ~st.ret.null
                           THEN [f.acc EXCEPT !.bookmakers = st.ret.books]
                           ELSE f.acc
                IN  Return([st EXCEPT !.c.nbaOdds = Put(@, f.arg.id, acc)],
                           NullData, acc)


fetchNbaOddsForEvent(st, f) ==
    IF st.variant = "bounded"
    THEN CASE f.pc = "start" ->
                SetTop(st, [f EXCEPT !.pc = "loop", !.i = 1,
                              !.acc = [bookmakers |-> {}]])
           [] f.pc = "loop" ->
                IF f.i > Len(NBA_BOOKMAKERS) THEN Goto(st, "store")
                ELSE LET r == CheckRateLimit(st.c, st.now)
                     IN  IF ~r.ok
                         THEN Goto([st EXCEPT !.c = r.c], "store")
                         ELSE Call([st EXCEPT !.c = r.c], "l526",
                                   Frame("fetchWithRateLimit",
                                         Desc("nbaOdds", f.arg.id, NBA_BOOKMAKERS[f.i])))
           [] f.pc = "l526" ->
                LET b == NBA_BOOKMAKERS[f.i]
                    g == IF ~st.ret.null /\ b \in st.ret.books
                         THEN [f EXCEPT !.acc.bookmakers = @ \cup {b}]
                         ELSE f
                IN  Sleep(SetTop(st, g), "slept")
           [] f.pc = "slept" ->
                SetTop(st, [f EXCEPT !.pc = "loop", !.i = @ + 1])
           [] OTHER -> \* "store"
                Return([st EXCEPT !.c.nbaOdds = Put(@, f.arg.id, f.acc)],
                       NullData, f.acc)
    ELSE CASE f.pc = "start" ->
                Call(SetTop(st, [f EXCEPT !.acc =
                                   [bookmakers |-> {}]]),
                     "l908",
                     Frame("fetchWithRateLimit", Desc("nbaOdds", f.arg.id, "all")))
           [] OTHER -> \* "l908"
                LET acc == IF ~st.ret.null
                           THEN [f.acc EXCEPT !.bookmakers = st.ret.books]
                           ELSE f.acc
                IN  Return([st EXCEPT !.c.nbaOdds = Put(@, f.arg.id, acc)],
                           NullData, acc)

\* as refreshNbaOdds, but a pass that fetched no odds leaves the timestamp
refreshNbaOddsStampsOnData(st, f) ==
    CASE f.pc = "start" ->
            IF Len(st.c.nbaEvents) = 0
            THEN Call(st, "l546", Frame("fetchNbaEvents", NoDesc))
            ELSE Goto(st, "l546")
      [] f.pc = "l546" ->
            IF NullEvent \in SeqToSet(st.c.nbaEvents)
            THEN Throw(st, "TypeError")
            ELSE LET sortedEvents == SortByDate(st.c.nbaEvents)
                     upcomingEvents == IF st.variant = "bounded"
                                       THEN Upcoming(sortedEvents, st.now)
                                       ELSE sortedEvents
                 IN  SetTop(st, [f EXCEPT !.pc = "loop", !.i = 1,
                                          !.list = upcomingEvents])
      [] f.pc = "loop" ->
            IF f.i > Len(f.list) THEN Goto(st, "stamp")
            ELSE LET r == LoopCheck(st)
                 IN  IF ~r.ok
                     THEN Goto([st EXCEPT !.c = r.c], "stamp")
                     ELSE Call([st EXCEPT !.c = r.c], "l562",
                               Frame(Method(st, "fetchNbaOddsForEvent"),
                                     Desc("nba", f.list[f.i].id, "")))
      [] f.pc = "l562" -> Sleep(st, "slept")
      [] f.pc = "slept" -> SetTop(st, [f EXCEPT !.pc = "loop", !.i = @ + 1])
      [] OTHER ->
            IF f.i > 1
            THEN Return([st EXCEPT !.c.lastNbaOddsUpdate = st.now],
                        NullData, NoSnapshot)
            ELSE Return(st, NullData, NoSnapshot)

\* as refreshNbaOdds, but the events are fetched at every entry
refreshNbaOddsAlwaysFetches(st, f) ==
    CASE f.pc = "start" -> Call(st, "l546", Frame("fetchNbaEvents", NoDesc))
      [] f.pc = "l546" ->
            IF NullEvent \in SeqToSet(st.c.nbaEvents)
            THEN Throw(st, "TypeError")
            ELSE LET sortedEvents == SortByDate(st.c.nbaEvents)
                     upcomingEvents == IF st.variant = "bounded"
                                       THEN Upcoming(sortedEvents, st.now)
                                       ELSE sortedEvents
                 IN  SetTop(st, [f EXCEPT !.pc = "loop", !.i = 1,
                                          !.list = upcomingEvents])
      [] f.pc = "loop" ->
            IF f.i > Len(f.list) THEN Goto(st, "stamp")
            ELSE LET r == LoopCheck(st)
                 IN  IF ~r.ok
                     THEN Goto([st EXCEPT !.c = r.c], "stamp")
                     ELSE Call([st EXCEPT !.c = r.c], "l562",
                               Frame(Method(st, "fetchNbaOddsForEvent"),
                                     Desc("nba", f.list[f.i].id, "")))
      [] f.pc = "l562" -> Sleep(st, "slept")
      [] f.pc = "slept" -> SetTop(st, [f EXCEPT !.pc = "loop", !.i = @ + 1])
      [] OTHER ->
            Return([st EXCEPT !.c.lastNbaOddsUpdate = st.now],
                   NullData, NoSnapshot)

\* as refreshNbaOdds, but the football odds timestamp is stamped as well
refreshNbaOddsStampsBoth(st, f) ==
    CASE f.pc = "start" ->
            IF Len(st.c.nbaEvents) = 0
            THEN Call(st, "l546", Frame("fetchNbaEvents", NoDesc))
            ELSE Goto(st, "l546")
      [] f.pc = "l546" ->
            IF NullEvent \in SeqToSet(st.c.nbaEvents)
            THEN Throw(st, "TypeError")       \* a.date / e.date of null
            ELSE LET sortedEvents == SortByDate(st.c.nbaEvents)
                     upcomingEvents == IF st.variant = "bounded"
                                       THEN Upcoming(sortedEvents, st.now)
                                       ELSE sortedEvents
                 IN  SetTop(st, [f EXCEPT !.pc = "loop", !.i = 1,
                                          !.list = upcomingEvents])
      [] f.pc = "loop" ->
            IF f.i > Len(f.list) THEN Goto(st, "stamp")
            ELSE LET r == LoopCheck(st)
                 IN  IF ~r.ok
                     THEN Goto([st EXCEPT !.c = r.c], "stamp")
                     ELSE Call([st EXCEPT !.c = r.c], "l562",
                               Frame(Method(st, "fetchNbaOddsForEvent"),
                                     Desc("nba", f.list[f.i].id, "")))
      [] f.pc = "l562" -> Sleep(st, "slept")
      [] f.pc = "slept" -> SetTop(st, [f EXCEPT !.pc = "loop", !.i = @ + 1])
      [] OTHER -> \* "stamp"
            Return([st EXCEPT !.c.lastNbaOddsUpdate = st.now,
                              !.c.lastFootballOddsUpdate = st.now],
                   NullData, NoSnapshot)

refreshNbaOdds(st, f) ==
    CASE f.pc = "start" ->
            IF Len(st.c.nbaEvents) = 0
            THEN Call(st, "l546", Frame("fetchNbaEvents", NoDesc))
            ELSE Goto(st, "l546")
      [] f.pc = "l546" ->
            IF NullEvent \in SeqToSet(st.c.nbaEvents)
            THEN Throw(st, "TypeError")       \* a.date / e.date of null
            ELSE LET sortedEvents == SortByDate(st.c.nbaEvents)
                     upcomingEvents == IF st.variant = "bounded"
                                       THEN Upcoming(sortedEvents, st.now)
                                       ELSE sortedEvents
                 IN  SetTop(st, [f EXCEPT !.pc = "loop", !.i = 1,
                                          !.list = upcomingEvents])
      [] f.pc = "loop" ->
            IF f.i > Len(f.list) THEN Goto(st, "stamp")
            ELSE LET r == LoopCheck(st)
                 IN  IF ~r.ok
                     THEN Goto([st EXCEPT !.c = r.c], "stamp")
                     ELSE Call([st EXCEPT !.c = r.c], "l562",
                               Frame(Method(st, "fetchNbaOddsForEvent"),
                                     Desc("nba", f.list[f.i].id, "")))
      [] f.pc = "l562" -> Sleep(st, "slept")
      [] f.pc = "slept" -> SetTop(st, [f EXCEPT !.pc = "loop", !.i = @ + 1])
      [] OTHER -> \* "stamp"
            Return([st EXCEPT !.c.lastNbaOddsUpdate = st.now],
                   NullData, NoSnapshot)

fetchFootballEvents(st, f) ==
    IF f.pc = "start"
    THEN Call(st, "l578",
              Frame("fetchWithRateLimit", Desc("footballEvents", f.arg.id, "")))
    ELSE \* "l578"
         IF ~st.ret.null /\ st.ret.array
         THEN LET data == IF st.variant = "bounded" THEN st.ret.events
                          ELSE Transform(st.ret.events)
              IN  Return([st EXCEPT
                            !.c.footballEvents = Put(@, f.arg.id, data),
                            !.c.lastFootballEventsUpdate = Put(@, f.arg.id, st.now)],
                         NullData, NoSnapshot)
         ELSE Return(st, NullData, NoSnapshot)

fetchFootballOddsForEvent(st, f) ==
    IF st.variant = "bounded"
    THEN CASE f.pc = "start" ->
                SetTop(st, [f EXCEPT !.pc = "loop", !.i = 1,
                              !.acc = [bookmakers |-> {}]])
           [] f.pc = "loop" ->
                IF f.i > Len(FOOTBALL_BOOKMAKERS) THEN Goto(st, "store")
                ELSE LET r == CheckRateLimit(st.c, st.now)
                     IN  IF ~r.ok
                         THEN Goto([st EXCEPT !.c = r.c], "store")
                         ELSE Call([st EXCEPT !.c = r.c], "l597",
                                   Frame("fetchWithRateLimit",
                                         Desc("footballOdds", f.arg.id,
                                              FOOTBALL_BOOKMAKERS[f.i])))
           [] f.pc = "l597" ->
                LET b == FOOTBALL_BOOKMAKERS[f.i]
                    g == IF ~st.ret.null /\ b \in st.ret.books
                         THEN [f EXCEPT !.acc.bookmakers = @ \cup {b}]
                         ELSE f
                IN  Sleep(SetTop(st, g), "slept")
           [] f.pc = "slept" ->
                SetTop(st, [f EXCEPT !.pc = "loop", !.i = @ + 1])
           [] OTHER -> \* "store"
                Return([st EXCEPT !.c.footballOdds = Put(@, f.arg.id, f.acc)],
                       NullData, f.acc)
    ELSE CASE f.pc = "start" ->
                Call(SetTop(st, [f EXCEPT !.acc =
                                   [bookmakers |-> {}]]),
                     "l992",
                     Frame("fetchWithRateLimit",
                           Desc("footballOdds", f.arg.id, "all")))
           [] OTHER -> \* "l992"
                LET acc == IF ~st.ret.null
                           THEN [f.acc EXCEPT !.bookmakers = st.ret.books]
                           ELSE f.acc
                IN  Return([st EXCEPT !.c.footballOdds = Put(@, f.arg.id, acc)],
                           NullData, acc)

\* as refreshFootballOdds, but the events keep the order of the leagues
refreshFootballOddsUnsorted(st, f) ==
    CASE f.pc = "start" -> SetTop(st, [f EXCEPT !.pc = "leagues", !.i = 1])
      [] f.pc = "leagues" ->
            IF f.i > Len(Leagues(st.variant)) THEN Goto(st, "collect")
            ELSE LET r == LoopCheck(st)
                 IN  IF ~r.ok
                     THEN Goto([st EXCEPT !.c = r.c], "collect")
                     ELSE Call([st EXCEPT !.c = r.c], "l617",
                               Frame("fetchFootballEvents",
                                     Desc("football", Leagues(st.variant)[f.i], "")))
      [] f.pc = "l617" -> Sleep(st, "lslept")
      [] f.pc = "lslept" -> SetTop(st, [f EXCEPT !.pc = "leagues", !.i = @ + 1])
      [] f.pc = "collect" ->
            LET sortedEvents == AllFootballEvents(st.c, Leagues(st.variant), 1)
                upcomingEvents == IF st.variant = "bounded"
                                  THEN Upcoming(sortedEvents, st.now)
                                  ELSE sortedEvents
            IN  SetTop(st, [f EXCEPT !.pc = "loop", !.i = 1,
                                     !.list = upcomingEvents])
      [] f.pc = "loop" ->
            IF f.i > Len(f.list) THEN Goto(st, "stamp")
            ELSE LET r == LoopCheck(st)
                 IN  IF ~r.ok
                     THEN Goto([st EXCEPT !.c = r.c], "stamp")
                     ELSE Call([st EXCEPT !.c = r.c], "l642",
                               Frame(Method(st, "fetchFootballOddsForEvent"),
                                     Desc("football", f.list[f.i].id, "")))
      [] f.pc = "l642" -> Sleep(st, "slept")
      [] f.pc = "slept" -> SetTop(st, [f EXCEPT !.pc = "loop", !.i = @ + 1])
      [] OTHER -> \* "stamp"
            Return([st EXCEPT !.c.lastFootballOddsUpdate = st.now],
                   NullData, NoSnapshot)

refreshFootballOdds(st, f) ==
    CASE f.pc = "start" -> SetTop(st, [f EXCEPT !.pc = "leagues", !.i = 1])
      [] f.pc = "leagues" ->
            IF f.i > Len(Leagues(st.variant)) THEN Goto(st, "collect")
            ELSE LET r == LoopCheck(st)
                 IN  IF ~r.ok
                     THEN Goto([st EXCEPT !.c = r.c], "collect")
                     ELSE Call([st EXCEPT !.c = r.c], "l617",
                               Frame("fetchFootballEvents",
                                     Desc("football", Leagues(st.variant)[f.i], "")))
      [] f.pc = "l617" -> Sleep(st, "lslept")
      [] f.pc = "lslept" -> SetTop(st, [f EXCEPT !.pc = "leagues", !.i = @ + 1])
      [] f.pc = "collect" ->
            LET sortedEvents == SortByDate(AllFootballEvents(st.c, Leagues(st.variant), 1))
                upcomingEvents == IF st.variant = "bounded"
                                  THEN Upcoming(sortedEvents, st.now)
                                  ELSE sortedEvents
            IN  SetTop(st, [f EXCEPT !.pc = "loop", !.i = 1,
                                     !.list = upcomingEvents])
      [] f.pc = "loop" ->
            IF f.i > Len(f.list) THEN Goto(st, "stamp")
            ELSE LET r == LoopCheck(st)
                 IN  IF ~r.ok
                     THEN Goto([st EXCEPT !.c = r.c], "stamp")
                     ELSE Call([st EXCEPT !.c = r.c], "l642",
                               Frame(Method(st, "fetchFootballOddsForEvent"),
                                     Desc("football", f.list[f.i].id, "")))
      [] f.pc = "l642" -> Sleep(st, "slept")
      [] f.pc = "slept" -> SetTop(st, [f EXCEPT !.pc = "loop", !.i = @ + 1])
      [] OTHER -> \* "stamp"
            Return([st EXCEPT !.c.lastFootballOddsUpdate = st.now],
                   NullData, NoSnapshot)

\* as refreshAll, but the football refresh comes before the NBA odds
refreshAllFootballFirst(st, f) ==
    CASE f.pc = "start" ->
            IF st.c.isRefreshing
            THEN Return(st, NullData, NoSnapshot)
            ELSE LET c1 == IF st.variant = "bounded"
                           THEN GetRemainingCalls(st.c, st.now).c
                           ELSE st.c
                 IN  Call([st EXCEPT !.c = [c1 EXCEPT !.isRefreshing = TRUE]],
                          "l663", Frame("fetchNbaEvents", NoDesc))
      [] f.pc = "l663" -> Call(st, "l666", Frame(Method(st, "refreshFootballOdds"), NoDesc))
      [] f.pc = "l666" -> Call(st, "finally", Frame(Method(st, "refreshNbaOdds"), NoDesc))
      [] OTHER ->
            Return([st EXCEPT !.c.isRefreshing = FALSE], NullData, NoSnapshot)

\* as refreshAll, without the single-flight guard
refreshAllNoGuard(st, f) ==
    CASE f.pc = "start" ->
            Call([st EXCEPT !.c.isRefreshing = TRUE], "l663",
                 Frame("fetchNbaEvents", NoDesc))
      [] f.pc = "l663" -> Call(st, "l666", Frame(Method(st, "refreshNbaOdds"), NoDesc))
      [] f.pc = "l666" -> Call(st, "finally", Frame(Method(st, "refreshFootballOdds"), NoDesc))
      [] OTHER ->
            Return([st EXCEPT !.c.isRefreshing = FALSE], NullData, NoSnapshot)

\* as refreshAll, with the guard inside the try block: the finally block
\* also runs for a rejected invocation
refreshAllGuardInTry(st, f) ==
    CASE f.pc = "start" ->
            IF st.c.isRefreshing
            THEN Return([st EXCEPT !.c.isRefreshing = FALSE], NullData, NoSnapshot)
            ELSE LET c1 == IF st.variant = "bounded"
                           THEN GetRemainingCalls(st.c, st.now).c
                           ELSE st.c
                 IN  Call([st EXCEPT !.c = [c1 EXCEPT !.isRefreshing = TRUE]],
                          "l663", Frame("fetchNbaEvents", NoDesc))
      [] f.pc = "l663" -> Call(st, "l666", Frame(Method(st, "refreshNbaOdds"), NoDesc))
      [] f.pc = "l666" -> Call(st, "finally", Frame(Method(st, "refreshFootballOdds"), NoDesc))
      [] OTHER ->
            Return([st EXCEPT !.c.isRefreshing = FALSE], NullData, NoSnapshot)

\* as refreshAll, but a rejected invocation waits for the flag and then runs
refreshAllQueued(st, f) ==
    CASE f.pc = "start" ->
            IF st.c.isRefreshing
            THEN Sleep(st, "start")
            ELSE LET c1 == IF st.variant = "bounded"
                           THEN GetRemainingCalls(st.c, st.now).c
                           ELSE st.c
                 IN  Call([st EXCEPT !.c = [c1 EXCEPT !.isRefreshing = TRUE]],
                          "l663", Frame("fetchNbaEvents", NoDesc))
      [] f.pc = "l663" -> Call(st, "l666", Frame(Method(st, "refreshNbaOdds"), NoDesc))
      [] f.pc = "l666" -> Call(st, "finally", Frame(Method(st, "refreshFootballOdds"), NoDesc))
      [] OTHER ->
            Return([st EXCEPT !.c.isRefreshing = FALSE], NullData, NoSnapshot)

refreshAll(st, f) ==
    CASE f.pc = "start" ->
            IF st.c.isRefreshing
            THEN Return(st, NullData, NoSnapshot)
            ELSE LET c1 == IF st.variant = "bounded"
                           THEN GetRemainingCalls(st.c, st.now).c
                           ELSE st.c
                 IN  Call([st EXCEPT !.c = [c1 EXCEPT !.isRefreshing = TRUE]],
                          "l663", Frame("fetchNbaEvents", NoDesc))
      [] f.pc = "l663" -> Call(st, "l666", Frame(Method(st, "refreshNbaOdds"), NoDesc))
      [] f.pc = "l666" -> Call(st, "finally", Frame(Method(st, "refreshFootballOdds"), NoDesc))
      [] OTHER -> \* "finally"
            Return([st EXCEPT !.c.isRefreshing = FALSE], NullData, NoSnapshot)

\* as refreshAllCatch, but the error leaves refreshAll: no catch, no finally
refreshAllNoCatch(st) ==
    [st EXCEPT !.stack = SubSeq(st.stack, 1, Len(st.stack) - 1)]

\* catch (error) of refreshAll: record the error, then the finally block
refreshAllCatch(st) ==
    Goto([st EXCEPT !.c.lastError = [message |-> st.exc, url |-> NoDesc],
                    !.exc = "none"],
         "finally")

----------------------------------------------------------------------------
(* server.js: the wrappers installed on the cache object, and the entry   *)
(* points of the triggers                                                  *)

\* broadcast('status', oddsCache.getStatus())
emitStatus(st) ==
    LET g == GetStatus(st.c, st.now, st.variant)
    IN  Emit([st EXCEPT !.c = g.c],
             Ev("*", "status", "", "", NoSnapshot, g.status, NoCache))

refreshAllW(st, f) ==
    IF f.pc = "start"
    THEN Call(Emit(st, Ev("*", "refreshStart", "all", "", NoSnapshot, NoStatus, NoCache)),
              "after", Frame("refreshAll", NoDesc))
    ELSE LET g == GetStatus(st.c, st.now, st.variant)
             s1 == Emit([st EXCEPT !.c = g.c],
                        Ev("*", "refreshComplete", "all", "", NoSnapshot, g.status, NoCache))
             s2 == Emit(s1, Ev("*", "nbaUpdate", "", "", NoSnapshot, NoStatus, g.c))
             s3 == Emit(s2, Ev("*", "footballUpdate", "", "", NoSnapshot, NoStatus, g.c))
         IN  Return(s3, NullData, NoSnapshot)

\* as refreshNbaOddsW, but the update goes to every socket
refreshNbaOddsWBroadcasts(st, f) ==
    IF f.pc = "start"
    THEN Call(Emit(st, Ev("nba", "refreshStart", "nba", "", NoSnapshot, NoStatus, NoCache)),
              "after", Frame("refreshNbaOdds", NoDesc))
    ELSE Return(emitStatus(Emit(st, Ev("*", "nbaUpdate", "", "", NoSnapshot,
                                       NoStatus, st.c))),
                NullData, NoSnapshot)

refreshNbaOddsW(st, f) ==
    IF f.pc = "start"
    THEN Call(Emit(st, Ev("nba", "refreshStart", "nba", "", NoSnapshot, NoStatus, NoCache)),
              "after", Frame("refreshNbaOdds", NoDesc))
    ELSE Return(emitStatus(Emit(st, Ev("nba", "nbaUpdate", "", "", NoSnapshot,
                                       NoStatus, st.c))),
                NullData, NoSnapshot)

refreshFootballOddsW(st, f) ==
    IF f.pc = "start"
    THEN Call(Emit(st, Ev("football", "refreshStart", "football", "", NoSnapshot,
                          NoStatus, NoCache)),
              "after", Frame("refreshFootballOdds", NoDesc))
    ELSE Return(emitStatus(Emit(st, Ev("football", "footballUpdate", "", "",
                                       NoSnapshot, NoStatus, st.c))),
                NullData, NoSnapshot)

\* as fetchNbaOddsForEventW, but the event is published before the fetch,
\* with the snapshot stored until then
fetchNbaOddsForEventWEarly(st, f) ==
    IF f.pc = "start"
    THEN Call(Emit(st, Ev("nba", "oddsUpdate", "nba", f.arg.id,
                          Get(st.c.nbaOdds, f.arg.id, NoSnapshot),
                          NoStatus, NoCache)),
              "after", Frame("fetchNbaOddsForEvent", f.arg))
    ELSE Return(st, NullData, st.snap)

fetchNbaOddsForEventW(st, f) ==
    IF f.pc = "start"
    THEN Call(st, "after", Frame("fetchNbaOddsForEvent", f.arg))
    ELSE Return(Emit(st, Ev("nba", "oddsUpdate", "nba", f.arg.id, st.snap,
                            NoStatus, NoCache)),
                NullData, st.snap)

fetchFootballOddsForEventW(st, f) ==
    IF f.pc = "start"
    THEN Call(st, "after", Frame("fetchFootballOddsForEvent", f.arg))
    ELSE Return(Emit(st, Ev("football", "oddsUpdate", "football", f.arg.id,
                            st.snap, NoStatus, NoCache)),
                NullData, st.snap)

\* as refreshNbaTrigger, but turned away while a full refresh is running
refreshNbaTriggerGuarded(st, f) ==
    CASE f.pc = "start" ->
            IF st.c.isRefreshing
            THEN Return(st, NullData, NoSnapshot)
            ELSE Call(st, "then", Frame("fetchNbaEvents", NoDesc))
      [] f.pc = "then" -> Call(st, "end", Frame(Method(st, "refreshNbaOdds"), NoDesc))
      [] OTHER -> Return(st, NullData, NoSnapshot)

\* type nba: fetchNbaEvents, then refreshNbaOdds
refreshNbaTrigger(st, f) ==
    CASE f.pc = "start" -> Call(st, "then", Frame("fetchNbaEvents", NoDesc))
      [] f.pc = "then" -> Call(st, "end", Frame(Method(st, "refreshNbaOdds"), NoDesc))
      [] OTHER -> Return(st, NullData, NoSnapshot)

----------------------------------------------------------------------------
(* Running a call chain up to its next suspension point *)

Step1(st) ==
    LET f == Top(st)
    IN  IF st.exc # "none"
        THEN IF f.fn = "refreshAll"
             THEN refreshAllCatch(st)
             ELSE [st EXCEPT !.stack = SubSeq(st.stack, 1, Len(st.stack) - 1)]
        ELSE CASE f.fn = "fetchWithRateLimit" -> fetchWithRateLimit(st, f)
               [] f.fn = "fetchNbaEvents" -> fetchNbaEvents(st, f)
               [] f.fn = "fetchNbaOddsForEvent" -> fetchNbaOddsForEvent(st, f)
               [] f.fn = "refreshNbaOdds" -> refreshNbaOdds(st, f)
               [] f.fn = "fetchFootballEvents" -> fetchFootballEvents(st, f)
               [] f.fn = "fetchFootballOddsForEvent" -> fetchFootballOddsForEvent(st, f)
               [] f.fn = "refreshFootballOdds" -> refreshFootballOdds(st, f)
               [] f.fn = "refreshAll" -> refreshAll(st, f)
               [] f.fn = "refreshAllW" -> refreshAllW(st, f)
               [] f.fn = "refreshNbaOddsW" -> refreshNbaOddsW(st, f)
               [] f.fn = "refreshFootballOddsW" -> refreshFootballOddsW(st, f)
               [] f.fn = "fetchNbaOddsForEventW" -> fetchNbaOddsForEventW(st, f)
               [] f.fn = "fetchFootballOddsForEventW" -> fetchFootballOddsForEventW(st, f)
               [] OTHER -> refreshNbaTrigger(st, f)

RECURSIVE Run(_)
Run(st) ==
    IF st.stack = <<>> \/ st.wait # "run"
    THEN st
    ELSE CHOOSE r \in { Run(x) : x \in {Step1(st)} } : TRUE

----------------------------------------------------------------------------
(* Actions *)

NoResponse == Response("none", NullData)

Machine(stack, resp, pre) ==
    [c |-> cache, stack |-> stack, ret |-> NullData, snap |-> NoSnapshot,
     exc |-> "none", wait |-> "run", out |-> pre, calls |-> <<>>, now |-> now,
     variant |-> variant, hasKey |-> hasKey, decorated |-> decorated,
     resp |-> resp]

Idle(s) == tasks[s].wait = "idle"

FreeSlot == CHOOSE s \in slots : Idle(s) /\ \A r \in slots : Idle(r) => s <= r

Root(kind) ==
    CASE kind = "all" -> Frame(IF decorated THEN "refreshAllW" ELSE "refreshAll", NoDesc)
      [] kind = "nba" -> Frame("refreshNbaTrigger", NoDesc)
      [] OTHER -> Frame(IF decorated THEN "refreshFootballOddsW"
                        ELSE "refreshFootballOdds", NoDesc)

\* as LaunchFrame, but what the caller publishes comes after the first run
LaunchFrameLate(frame, kind, pre) ==
    /\ quota > 0
    /\ quota' = quota - 1
    /\ \E st \in {Run(Machine(<<frame>>, NoResponse, <<>>))} :
          /\ cache' = st.c
          /\ out' = st.out \o pre
          /\ calls' = st.calls
          /\ IF st.stack = <<>>
             THEN UNCHANGED tasks
             ELSE /\ \E s \in slots : Idle(s)
                  /\ tasks' = [tasks EXCEPT ![FreeSlot] =
                                 [stack |-> st.stack, wait |-> st.wait, kind |-> kind]]
    /\ UNCHANGED <<variant, hasKey, decorated, now, slots, rooms>>

\* start a call chain at frame and run it to its first suspension
LaunchFrame(frame, kind, pre) ==
    /\ quota > 0
    /\ quota' = quota - 1
    /\ \E st \in {Run(Machine(<<frame>>, NoResponse, pre))} :
          /\ cache' = st.c
          /\ out' = st.out
          /\ calls' = st.calls
          /\ IF st.stack = <<>>
             THEN UNCHANGED tasks
             ELSE /\ \E s \in slots : Idle(s)
                  /\ tasks' = [tasks EXCEPT ![FreeSlot] =
                                 [stack |-> st.stack, wait |-> st.wait, kind |-> kind]]
    /\ UNCHANGED <<variant, hasKey, decorated, now, slots, rooms>>

\* start the call chain of a trigger
Launch(kind, pre) == LaunchFrame(Root(kind), kind, pre)

\* httpServer.listen callback: the initial refreshAll
Startup ==
    /\ ~booted
    /\ booted' = TRUE
    /\ Launch("all", <<>>)

\* cron.schedule callback
Scheduler ==
    /\ booted
    /\ Launch("all", IF decorated
                     THEN <<Ev("*", "scheduledRefresh", "", "", NoSnapshot, NoStatus, NoCache)>>
                     ELSE <<>>)
    /\ UNCHANGED booted

RefreshTypes == {"nba", "football", "all"}

\* the type of a request body: one of the three, another string, or none ("")
AdminTypes == RefreshTypes \cup {"mlb", ""}

\* if (type === 'nba') ... else if (type === 'football') ... else ...
Branch(type) == IF type \in {"nba", "football"} THEN type ELSE "all"

\* res.json({ message: 'Refresh started', type: type || 'all' })
Acknowledgement(type) ==
    Ev("http", "response", IF type = "" THEN "all" ELSE type, "", NoSnapshot,
       NoStatus, NoCache)

\* POST /api/admin/refresh {type}: the response is sent first
AdminRefresh(type) ==
    /\ booted
    /\ Launch(Branch(type), <<Acknowledgement(type)>>)
    /\ UNCHANGED booted

\* socket.on('requestRefresh')
RequestRefresh(type) ==
    /\ booted
    /\ decorated
    /\ Launch(type, <<>>)
    /\ UNCHANGED booted

\* the event ids a caller of the cache may ask odds for
DirectIds == {"n1"}

\* oddsCache.fetchNbaOddsForEvent(id) / fetchFootballOddsForEvent(id),
\* called on the exported cache object
DirectFetchOdds(sport, id) ==
    /\ LaunchFrame(Frame(Method([decorated |-> decorated],
                                IF sport = "nba" THEN "fetchNbaOddsForEvent"
                                ELSE "fetchFootballOddsForEvent"),
                         Desc(sport, id, "")),
                   "odds", <<>>)
    /\ UNCHANGED booted

\* oddsCache.refreshNbaOdds() / refreshFootballOdds(), called on the
\* exported cache object
DirectRefresh(sport) ==
    /\ LaunchFrame(Frame(Method([decorated |-> decorated],
                                IF sport = "nba" THEN "refreshNbaOdds"
                                ELSE "refreshFootballOdds"),
                         NoDesc),
                   sport, <<>>)
    /\ UNCHANGED booted

\* oddsCache.fetchNbaEvents(), called on the exported cache object
DirectFetchEvents ==
    /\ LaunchFrame(Frame("fetchNbaEvents", NoDesc), "events", <<>>)
    /\ UNCHANGED booted

Responses(arg) ==
    CASE arg.what = "nbaEvents" -> EventResponses(NbaEventLists)
      [] arg.what = "footballEvents" -> EventResponses(FootballEventLists)
      [] arg.what = "nbaOdds" ->
            OddsResponses(IF arg.book = "all" THEN SeqToSet(NBA_BOOKMAKERS)
                          ELSE {arg.book})
      [] OTHER ->
            OddsResponses(IF arg.book = "all" THEN SeqToSet(FOOTBALL_BOOKMAKERS)
                          ELSE {arg.book})

Continue(s, resp) ==
    /\ \E st \in {Run(Machine(tasks[s].stack, resp, <<>>))} :
          /\ cache' = st.c
          /\ out' = st.out
          /\ calls' = st.calls
          /\ tasks' = [tasks EXCEPT ![s] =
                         IF st.stack = <<>> THEN NoTask
                         ELSE [stack |-> st.stack, wait |-> st.wait,
                               kind |-> tasks[s].kind]]
    /\ UNCHANGED <<variant, hasKey, decorated, now, slots, quota, booted, rooms>>

\* an upstream request completes (or fails)
Respond(s) ==
    /\ tasks[s].wait = "io"
    /\ \E resp \in Responses(Top(tasks[s]).arg) : Continue(s, resp)

\* a pacing delay ends
Wake(s) ==
    /\ tasks[s].wait = "sleep"
    /\ Continue(s, NoResponse)

\* time passes
Tick ==
    /\ now < MaxTime
    /\ now' = now + 1
    /\ out' = <<>>
    /\ calls' = <<>>
    /\ UNCHANGED <<variant, hasKey, decorated, cache, tasks, slots, quota, booted, rooms>>

\* GET /api/status
StatusRequest ==
    /\ booted
    /\ LET g == GetStatus(cache, now, variant)
       IN  /\ cache' = g.c
           /\ out' = <<Ev("http", "status", "", "", NoSnapshot, g.status, NoCache)>>
    /\ calls' = <<>>
    /\ quota > 0
    /\ quota' = quota - 1
    /\ UNCHANGED <<variant, hasKey, decorated, now, tasks, slots, booted, rooms>>

\* the GET routes that read the cache, and the parameters they are asked with
Routes ==
    {"nbaEvents", "nbaOdds", "nbaAllOdds", "nbaAll",
     "footballEvents", "footballOdds", "footballAllOdds", "footballAll"}

RouteIds == {"n1", "f1", "zz"}

RouteParams(route) ==
    CASE route \in {"nbaOdds", "footballOdds"} -> RouteIds
      [] route = "footballEvents" -> {"", FOOTBALL_LEAGUES[1]}
      [] OTHER -> {""}

\* the part of the cache a response body is made of
Body(nbaEvents, nbaOdds, footballEvents, footballOdds) ==
    [NoCache EXCEPT
       !.nbaEvents = nbaEvents.events,
       !.lastNbaEventsUpdate = nbaEvents.lastUpdate,
       !.nbaOdds = nbaOdds.odds,
       !.lastNbaOddsUpdate = nbaOdds.lastUpdate,
       !.footballEvents = footballEvents.events,
       !.lastFootballEventsUpdate = footballEvents.lastUpdate,
       !.footballOdds = footballOdds.odds,
       !.lastFootballOddsUpdate = footballOdds.lastUpdate]

NoEvents == [events |-> <<>>, lastUpdate |-> NoTime]
NoLeagues == [events |-> << >>, lastUpdate |-> << >>]
NoOdds == [odds |-> << >>, lastUpdate |-> NoTime]

\* res.status(code).json(...) of a GET route
Reply(code, route, id, snap, body) ==
    Ev("http", code, route, id, snap, NoStatus, body)

\* the handler of a GET route, as a function of the cache
Handle(c, route, param) ==
    CASE route = "nbaEvents" ->
            Reply("200", route, "", NoSnapshot,
                  Body(getNbaEvents(c), NoOdds, NoLeagues, NoOdds))
      [] route = "nbaOdds" ->
            LET odds == getNbaOdds(c, param)
            IN  IF odds = NoSnapshot      \* if (!odds)
                THEN Reply("404", route, param, NoSnapshot, NoCache)
                ELSE Reply("200", route, param, odds, NoCache)
      [] route = "nbaAllOdds" ->
            Reply("200", route, "", NoSnapshot,
                  Body(NoEvents, getAllNbaOdds(c), NoLeagues, NoOdds))
      [] route = "nbaAll" ->
            IF NullEvent \in SeqToSet(getNbaEvents(c).events)
            THEN Reply("500", route, "", NoSnapshot, NoCache)   \* event.id of null
            ELSE Reply("200", route, "", NoSnapshot,
                       Body(getNbaEvents(c), getAllNbaOdds(c), NoLeagues, NoOdds))
      [] route = "footballEvents" ->
            Reply("200", route, param, NoSnapshot,
                  Body(NoEvents, NoOdds, getFootballEvents(c, param), NoOdds))
      [] route = "footballOdds" ->
            LET odds == getFootballOdds(c, param)
            IN  IF odds = NoSnapshot
                THEN Reply("404", route, param, NoSnapshot, NoCache)
                ELSE Reply("200", route, param, odds, NoCache)
      [] route = "footballAllOdds" ->
            Reply("200", route, "", NoSnapshot,
                  Body(NoEvents, NoOdds, NoLeagues, getAllFootballOdds(c)))
      [] OTHER -> \* "footballAll"
            Reply("200", route, "", NoSnapshot,
                  Body(NoEvents, NoOdds, getFootballEvents(c, ""),
                       getAllFootballOdds(c)))

\* GET /api/nba/... and GET /api/football/...
GetRoute(route, param) ==
    /\ booted
    /\ quota > 0
    /\ quota' = quota - 1
    /\ out' = <<Handle(cache, route, param)>>
    /\ calls' = <<>>
    /\ UNCHANGED <<variant, hasKey, decorated, now, cache, tasks, slots, booted, rooms>>

\* the room every socket is in by itself: socket.emit reaches it alone
SocketRoom(c) == IF c = 1 THEN "socket1" ELSE "socket2"

\* io.on('connection'): a new socket takes the place of client c; it is sent
\* the status and the snapshot of the cache
Connect(c) ==
    /\ booted
    /\ decorated
    /\ quota > 0
    /\ quota' = quota - 1
    /\ rooms' = [rooms EXCEPT ![c] = {}]
    /\ LET g == GetStatus(cache, now, variant)
       IN  /\ cache' = g.c
           /\ out' = <<Ev(SocketRoom(c), "status", "", "", NoSnapshot, g.status, NoCache),
                       Ev(SocketRoom(c), "snapshot", "", "", NoSnapshot, NoStatus, g.c)>>
    /\ calls' = <<>>
    /\ UNCHANGED <<variant, hasKey, decorated, now, tasks, slots, booted>>

\* what a subscribe message may name
SubscribeSports == Sports \cup {"mlb"}

\* socket.on('subscribe'): join the room of the sport, if it is one of the two
Subscribe(c, sport) ==
    /\ booted
    /\ decorated
    /\ quota > 0
    /\ quota' = quota - 1
    /\ rooms' = [rooms EXCEPT ![c] = @ \cup ({sport} \cap Sports)]
    /\ out' = <<>>
    /\ calls' = <<>>
    /\ UNCHANGED <<variant, hasKey, decorated, now, cache, tasks, slots, booted>>

\* io.emit reaches every socket, io.to(room).emit the sockets in the room
Receives(c, e) ==
    e.room = "*" \/ e.room \in rooms[c] \/ e.room = SocketRoom(c)

\* the state after construction of the cache and of the server
Boot(v, k, d, sl, q) ==
    /\ variant = v
    /\ hasKey = k
    /\ decorated = d
    /\ now = 0
    /\ cache = NewCache(0)
    /\ tasks = [s \in Slots |-> NoTask]
    /\ slots = sl
    /\ quota = q
    /\ booted = FALSE
    /\ out = <<>>
    /\ calls = <<>>
    /\ rooms = [c \in Clients |-> {}]

\* WebSocket server over the rate-limited cache, chains may overlap,
\* everything happens within one accounting window
Init == Boot("bounded", TRUE, TRUE, Slots, MaxTriggers)

Next ==
    \/ Startup
    \/ Scheduler
    \/ \E type \in RefreshTypes : AdminRefresh(type)
    \/ \E type \in RefreshTypes : RequestRefresh(type)
    \/ \E s \in Slots : Respond(s)
    \/ \E s \in Slots : Wake(s)
    \/ StatusRequest

Spec == Init /\ [][Next]_vars

\* the plain HTTP server (no wrappers, no WebSocket triggers) over the
\* rate-limited cache, one chain at a time, with the clock running
InitPlain == Boot("bounded", TRUE, FALSE, {1}, MaxTimedTriggers)

NextPlain ==
    \/ Startup
    \/ Scheduler
    \/ \E type \in RefreshTypes : AdminRefresh(type)
    \/ \E s \in Slots : Respond(s)
    \/ \E s \in Slots : Wake(s)
    \/ StatusRequest
    \/ Tick

SpecPlain == InitPlain /\ [][NextPlain]_vars

\* plain HTTP server over the quota-free cache: the refresh cycle of the
\* startup, from its first request to its end
InitFree == Boot("free", TRUE, FALSE, {1}, MaxFreeTriggers)

NextFree ==
    \/ Startup
    \/ \E s \in Slots : Respond(s)
    \/ \E s \in Slots : Wake(s)

SpecFree == InitFree /\ [][NextFree]_vars

\* the exported cache object with the server's wrappers installed, its
\* fetch methods called one by one or overlapping, within one window
InitCache == Boot("bounded", TRUE, TRUE, Slots, MaxDirectCalls)

NextCache ==
    \/ \E sport \in {"nba", "football"} : \E id \in DirectIds :
          DirectFetchOdds(sport, id)
    \/ DirectFetchEvents
    \/ \E sport \in {"nba", "football"} : DirectRefresh(sport)
    \/ \E s \in Slots : Respond(s)
    \/ \E s \in Slots : Wake(s)

SpecCache == InitCache /\ [][NextCache]_vars

\* the WebSocket server over the rate-limited cache, one chain at a time,
\* with the clock running
InitTimed == Boot("bounded", TRUE, TRUE, {1}, MaxTimedTriggers)

NextTimed ==
    \/ Startup
    \/ Scheduler
    \/ \E type \in RefreshTypes : AdminRefresh(type)
    \/ \E type \in RefreshTypes : RequestRefresh(type)
    \/ \E s \in Slots : Respond(s)
    \/ \E s \in Slots : Wake(s)
    \/ StatusRequest
    \/ Tick

SpecTimed == InitTimed /\ [][NextTimed]_vars

\* the WebSocket server with its REST routes: startup, admin refreshes
\* and reads, within one accounting window
InitServe == Boot("bounded", TRUE, TRUE, Slots, MaxServeRequests)

NextServe ==
    \/ Startup
    \/ \E type \in AdminTypes : AdminRefresh(type)
    \/ \E route \in Routes : \E param \in RouteParams(route) : GetRoute(route, param)
    \/ StatusRequest
    \/ \E s \in Slots : Respond(s)
    \/ \E s \in Slots : Wake(s)

SpecServe == InitServe /\ [][NextServe]_vars

\* the quota-free cache object, with or without OPTIC_ODDS_API_KEY in the
\* environment, its fetch and refresh methods called one at a time
InitKey ==
    \E k \in BOOLEAN : Boot("free", k, FALSE, {1}, MaxKeyCalls)

NextKey ==
    \/ \E sport \in {"nba", "football"} : \E id \in DirectIds :
          DirectFetchOdds(sport, id)
    \/ DirectFetchEvents
    \/ \E sport \in {"nba", "football"} : DirectRefresh(sport)
    \/ \E s \in Slots : Respond(s)
    \/ \E s \in Slots : Wake(s)

SpecKey == InitKey /\ [][NextKey]_vars

\* the WebSocket server and its sockets: connections, subscriptions and
\* refreshes, one chain at a time, within one accounting window
InitPush == Boot("bounded", TRUE, TRUE, {1}, MaxPushRequests)

NextPush ==
    \/ Startup
    \/ \E type \in RefreshTypes : RequestRefresh(type)
    \/ \E c \in Clients : Connect(c)
    \/ \E c \in Clients : \E sport \in SubscribeSports : Subscribe(c, sport)
    \/ \E s \in Slots : Respond(s)
    \/ \E s \in Slots : Wake(s)

SpecPush == InitPush /\ [][NextPush]_vars

\* some pending upstream request is answered, or some pacing delay ends
Progress == \E s \in Slots : Respond(s) \/ Wake(s)

\* the event loop does not stop while a chain is waiting
Fairness == WF_vars(Progress)

InitFair == Boot("bounded", TRUE, TRUE, Slots, MaxFairTriggers)

SpecFair == InitFair /\ [][Next]_vars /\ Fairness

----------------------------------------------------------------------------
(* Vocabulary of the properties *)

\* the chain in slot s is a full refresh cycle: it is inside the body of
\* the cache's refreshAll, between setting and clearing isRefreshing
HasFullCycle(task) ==
    \E k \in 1..Len(task.stack) : task.stack[k].fn = "refreshAll"

FullCycle(s) == HasFullCycle(tasks[s])

InFlight == { s \in Slots : ~Idle(s) }

\* a trigger that invokes refreshAll
FullTrigger ==
    Startup \/ Scheduler \/ AdminRefresh("all") \/ RequestRefresh("all")

Elapsed == now - cache.hourStartTime >= hourMs

\* the counter as the next budget check sees it
Counted == IF Elapsed THEN 0 ELSE cache.apiCallsThisHour

PublishedIn(o, names) == { k \in 1..Len(o) : o[k].event \in names }

FailedEventResponses(lists) ==
    { r \in EventResponses(lists) : r.kind # "ok" \/ ~r.data.array }

\* what lastError says after the failure resp of the request arg
Failure(resp, arg) ==
    [message |-> IF resp.kind = "ok" THEN "malformed" ELSE resp.kind,
     url |-> arg]

Poisoned(events) == NullEvent \in SeqToSet(events)

NbaFetchPending(s) ==
    tasks[s].wait = "io" /\ Top(tasks[s]).arg.what = "nbaEvents"

FootballFetchPending(s) ==
    tasks[s].wait = "io" /\ Top(tasks[s]).arg.what = "footballEvents"

----------------------------------------------------------------------------
(* C1: the call counter never exceeds MAX_CALLS_PER_HOUR, and an upstream  *)
(* request is issued only from a state in which the counter, after the     *)
(* possible window reset, is below the limit; the request is counted in    *)
(* the step that issues it.  Chains of full and scoped refreshes overlap.  *)
C1_BudgetRespected ==
    /\ [](cache.apiCallsThisHour <= MAX_CALLS_PER_HOUR)
    /\ [][calls' # <<>> =>
            /\ Len(calls') = 1
            /\ Counted < MAX_CALLS_PER_HOUR
            /\ cache'.apiCallsThisHour = Counted + 1]_vars

\* the budget is used up while two chains are in flight
C1_Witness ==
    /\ cache.apiCallsThisHour = MAX_CALLS_PER_HOUR
    /\ InFlight = Slots
    /\ \E s \in Slots : tasks[s].wait = "io"

(* C2: a budget check made when the window has elapsed sets the counter to *)
(* 0 and the window start to now in the same step, a check made inside the *)
(* window changes neither, and the check answers counter < limit after the *)
(* possible reset.  GET /api/status makes exactly one check; a step that   *)
(* issues a request has made one just before.                              *)
C2_WindowReset ==
    [][/\ cache'.hourStartTime # cache.hourStartTime =>
             /\ Elapsed
             /\ cache'.hourStartTime = now
             /\ cache'.apiCallsThisHour = Len(calls')
       /\ cache'.hourStartTime = cache.hourStartTime =>
             cache'.apiCallsThisHour = cache.apiCallsThisHour + Len(calls')
       /\ (StatusRequest \/ calls' # <<>>) =>
             /\ Elapsed => cache'.hourStartTime = now
             /\ ~Elapsed => cache'.hourStartTime = cache.hourStartTime
             /\ ~(now' - cache'.hourStartTime >= hourMs)
       /\ StatusRequest =>
             /\ cache'.apiCallsThisHour = Counted
             /\ out'[1].status.remainingCalls = MAX_CALLS_PER_HOUR - Counted
       /\ calls' # <<>> => Counted < MAX_CALLS_PER_HOUR]_vars

\* a status request has reset a window in which calls had been made
C2_Witness ==
    /\ Len(out) = 1 /\ out[1].room = "http" /\ out[1].event = "status"
    /\ out[1].status.apiCallsThisHour > 0
    /\ out[1].status.remainingCalls = MAX_CALLS_PER_HOUR
    /\ cache.apiCallsThisHour = 0
    /\ cache.hourStartTime = now /\ now > 0

(* C3: invoking the cache's refreshAll while isRefreshing is true changes  *)
(* nothing: events, odds, timestamps, the call counter, the window, the    *)
(* flag (still true) and lastError are as before, no request is issued and *)
(* no chain is started.                                                    *)
C3_RejectedIsNoOp ==
    [][(cache.isRefreshing /\ FullTrigger) =>
          /\ cache' = cache
          /\ cache'.isRefreshing
          /\ calls' = <<>>
          /\ tasks' = tasks]_vars

\* POST /api/admin/refresh of type all has just been rejected, in a state
\* in which the window had elapsed with calls counted
C3_Witness ==
    /\ Len(out) = 1 /\ out[1].event = "response" /\ out[1].type = "all"
    /\ calls = <<>>
    /\ cache.isRefreshing
    /\ \E s \in Slots : FullCycle(s)
    /\ Elapsed
    /\ cache.apiCallsThisHour > 0

(* C4: at most one full refresh cycle is in flight, whatever the order of  *)
(* the startup trigger, scheduler ticks, admin requests and requestRefresh *)
(* messages; the flag is set exactly while that cycle is in flight.        *)
C4_SingleFlight ==
    /\ Cardinality({ s \in Slots : FullCycle(s) }) <= 1
    /\ cache.isRefreshing <=> (\E s \in Slots : FullCycle(s))

\* a full-refresh trigger has just been turned away while a cycle and a
\* scoped refresh are both in flight
C4_Witness ==
    /\ \E s \in Slots : FullCycle(s)
    /\ InFlight = Slots
    /\ \E k \in 1..Len(out) :
          out[k].event = "refreshComplete" /\ out[k].type = "all"

(* C5: every accepted full refresh cycle ends with isRefreshing false,    *)
(* provided every upstream request is answered and every pacing delay      *)
(* ends.  An error thrown inside the cycle (a null entry in the cached NBA *)
(* list makes refreshNbaOdds throw) is recorded in lastError and does not  *)
(* reach the caller, which goes on to publish refreshComplete.  A cycle    *)
(* leaves flight only through its finally block.                           *)
C5_CycleEnds ==
    /\ cache.isRefreshing ~> ~cache.isRefreshing
    /\ [][\A s \in Slots :
            /\ (HasFullCycle(tasks[s]) /\ ~HasFullCycle(tasks'[s])) =>
                  ~cache'.isRefreshing
            /\ (/\ HasFullCycle(tasks[s])
                /\ NbaFetchPending(s)
                /\ tasks'[s] # tasks[s]
                /\ Poisoned(cache'.nbaEvents)) =>
                  /\ ~cache'.isRefreshing
                  /\ cache'.lastError = [message |-> "TypeError", url |-> NoDesc]
                  /\ tasks'[s] = NoTask
                  /\ \E k \in 1..Len(out') :
                        /\ out'[k].event = "refreshComplete"
                        /\ out'[k].type = "all"]_vars

\* a cycle has just ended on a thrown error
C5_Witness ==
    /\ cache.lastError = [message |-> "TypeError", url |-> NoDesc]
    /\ ~cache.isRefreshing
    /\ Poisoned(cache.nbaEvents)
    /\ \E k \in 1..Len(out) :
          out[k].event = "refreshComplete" /\ out[k].type = "all"

(* C6: a rejected full-refresh trigger leaves nothing behind: it starts no *)
(* chain, isRefreshing goes from false to true only in the step of a       *)
(* full-refresh trigger, and a chain starts only in the step of a trigger. *)
C6_RejectedDropped ==
    [][/\ (cache.isRefreshing /\ FullTrigger) =>
             (tasks' = tasks /\ cache'.isRefreshing)
       /\ (~cache.isRefreshing /\ cache'.isRefreshing) => FullTrigger
       /\ \A s \in Slots :
             (tasks[s] = NoTask /\ tasks'[s] # NoTask) => quota' = quota - 1]_vars

\* the last trigger the model allows has just been rejected, the cycle is
\* still in flight and nothing else is
C6_Witness ==
    /\ quota = 0
    /\ cache.isRefreshing
    /\ Cardinality(InFlight) = 1
    /\ \E k \in 1..Len(out) :
          /\ out[k].event = "refreshComplete"
          /\ out[k].type = "all"
          /\ out[k].status.isRefreshing

(* C7: a full-refresh trigger that arrives while a cycle is in flight      *)
(* publishes no refreshStart, refreshComplete, nbaUpdate or footballUpdate.*)
C7_RejectedPublishesNothing ==
    [][(cache.isRefreshing /\ FullTrigger) =>
          PublishedIn(out', {"refreshStart", "refreshComplete",
                             "nbaUpdate", "footballUpdate"}) = {}]_vars

(* C8: in every state the cached NBA event list, and the cached list of    *)
(* each football league, is the initial empty list or the complete list of *)
(* one upstream response, never part of one and part of another.           *)
C8_ListsWhole ==
    /\ cache.nbaEvents \in NbaEventLists
    /\ \A k \in DOMAIN cache.footballEvents :
          cache.footballEvents[k] \in FootballEventLists

\* both scopes hold a fetched list while a chain is suspended
C8_Witness ==
    /\ cache.nbaEvents = <<NFar, N1>>
    /\ \E k \in DOMAIN cache.footballEvents :
          cache.footballEvents[k] = <<FFar, F2, F1>>
    /\ InFlight # {}

(* C9: a failed events fetch (non-2xx status, transport error, payload     *)
(* that is not an array) leaves the cached list and its timestamp as they  *)
(* were; the list or the timestamp changes only in the step that receives  *)
(* an array, which becomes the list, stamped with the current time.        *)
C9_FailureKeepsEvents ==
    [][/\ \A s \in Slots :
             /\ NbaFetchPending(s) =>
                   \A resp \in FailedEventResponses(NbaEventLists) :
                      Continue(s, resp) =>
                         /\ cache'.nbaEvents = cache.nbaEvents
                         /\ cache'.lastNbaEventsUpdate = cache.lastNbaEventsUpdate
             /\ FootballFetchPending(s) =>
                   \A resp \in FailedEventResponses(FootballEventLists) :
                      Continue(s, resp) =>
                         /\ cache'.footballEvents = cache.footballEvents
                         /\ cache'.lastFootballEventsUpdate =
                               cache.lastFootballEventsUpdate
       /\ (\/ cache'.nbaEvents # cache.nbaEvents
           \/ cache'.lastNbaEventsUpdate # cache.lastNbaEventsUpdate) =>
             \E s \in Slots :
                /\ NbaFetchPending(s)
                /\ tasks'[s] # tasks[s]
                /\ cache'.nbaEvents \in NbaEventLists
                /\ cache'.lastNbaEventsUpdate = now
       /\ (\/ cache'.footballEvents # cache.footballEvents
           \/ cache'.lastFootballEventsUpdate # cache.lastFootballEventsUpdate) =>
             \E s \in Slots :
                /\ FootballFetchPending(s)
                /\ tasks'[s] # tasks[s]
                /\ \E l \in FootballEventLists :
                      cache'.footballEvents =
                         Put(cache.footballEvents, Top(tasks[s]).arg.id, l)
                /\ cache'.lastFootballEventsUpdate =
                      Put(cache.lastFootballEventsUpdate,
                          Top(tasks[s]).arg.id, now)]_vars

\* the last request failed was one for the NBA events, and the list
\* fetched before it is still cached with its timestamp
C9_Witness ==
    /\ cache.lastError.url.what = "nbaEvents"
    /\ cache.nbaEvents # <<>>
    /\ cache.lastNbaEventsUpdate # NoTime

(* C10: every failed events fetch sets lastError to an error describing    *)
(* that failure: a non-2xx status, a transport error, and also a payload   *)
(* that parses but is not an array.  (An NBA fetch is looked at when the   *)
(* cached list has no null entry, so that nothing thrown later in the same *)
(* step overwrites lastError.)                                             *)
C10_FailureRecorded ==
    [][\A s \in Slots :
          /\ (NbaFetchPending(s) /\ ~Poisoned(cache.nbaEvents)) =>
                \A resp \in FailedEventResponses(NbaEventLists) :
                   Continue(s, resp) =>
                      cache'.lastError = Failure(resp, Top(tasks[s]).arg)
          /\ FootballFetchPending(s) =>
                \A resp \in FailedEventResponses(FootballEventLists) :
                   Continue(s, resp) =>
                      cache'.lastError = Failure(resp, Top(tasks[s]).arg)]_vars

(* C11: an events request answered with an empty array leaves the cached  *)
(* list of that scope as it was (the NBA list, the list of the league).    *)
C11_EmptyKeepsEvents ==
    [][\A s \in Slots :
          /\ NbaFetchPending(s) =>
                (Continue(s, Response("ok", Data(TRUE, <<>>, {}))) =>
                    cache'.nbaEvents = cache.nbaEvents)
          /\ FootballFetchPending(s) =>
                (Continue(s, Response("ok", Data(TRUE, <<>>, {}))) =>
                    LET k == Top(tasks[s]).arg.id
                    IN  Get(cache'.footballEvents, k, <<>>) =
                           Get(cache.footballEvents, k, <<>>))]_vars

\* the methods that build an odds snapshot
OddsFetchers == {"fetchNbaOddsForEvent", "fetchFootballOddsForEvent"}

\* the positions of the chain in slot s at which a snapshot is being built
Building(s) ==
    { k \in 1..Len(tasks[s].stack) : tasks[s].stack[k].fn \in OddsFetchers }

StoredOdds(c, fn, id) ==
    IF fn = "fetchNbaOddsForEvent" THEN Get(c.nbaOdds, id, NoSnapshot)
    ELSE Get(c.footballOdds, id, NoSnapshot)

(* C12: while one fetchOddsForEvent call is suspended and resumed, the     *)
(* bookmaker keys of the snapshot it builds only grow: every key present   *)
(* before a step is present after it, and the snapshot stored when the     *)
(* call ends holds every key collected.                                    *)
C12_SnapshotGrows ==
    [][\A s \in Slots : \A k \in Building(s) :
          LET f == tasks[s].stack[k]
          IN  IF k <= Len(tasks'[s].stack) /\ tasks'[s].stack[k].fn = f.fn
              THEN /\ tasks'[s].stack[k].arg = f.arg
                   /\ f.acc.bookmakers \subseteq tasks'[s].stack[k].acc.bookmakers
                   /\ Cardinality(tasks'[s].stack[k].acc.bookmakers) >=
                         Cardinality(f.acc.bookmakers)
              ELSE tasks'[s] # tasks[s] =>
                      f.acc.bookmakers \subseteq
                         StoredOdds(cache', f.fn, f.arg.id).bookmakers]_vars

\* a call has collected both NBA bookmakers and is still suspended
C12_Witness ==
    \E s \in Slots : \E k \in Building(s) :
       /\ tasks[s].stack[k].fn = "fetchNbaOddsForEvent"
       /\ tasks[s].stack[k].acc.bookmakers = SeqToSet(NBA_BOOKMAKERS)

\* the chain in slot s waits for the answer of one NBA bookmaker
NbaOddsCall(s) ==
    /\ tasks[s].wait = "io"
    /\ Len(tasks[s].stack) >= 2
    /\ tasks[s].stack[Len(tasks[s].stack) - 1].fn = "fetchNbaOddsForEvent"

\* the chain in slot s is in the pacing delay after one bookmaker
Paused(s, fn) ==
    /\ tasks[s].wait = "sleep"
    /\ Top(tasks[s]).fn = fn

(* C13: in fetchNbaOddsForEvent of the per-bookmaker variant a bookmaker   *)
(* without data is skipped: the call starts with the first bookmaker,      *)
(* after the answer of bookmaker i, whatever it is, it pauses and, budget  *)
(* permitting, asks bookmaker i + 1; the snapshot holds exactly the        *)
(* bookmakers that answered with data and is stored as collected.  An id   *)
(* never fetched has no snapshot (null), and the events count is the       *)
(* length of the array the upstream returned.                              *)
C13_FailureSkipped ==
    /\ [](getNbaOdds(cache, "unknown") = NoSnapshot)
    /\ [][\A s \in Slots :
            LET n == Len(tasks[s].stack)
            IN  /\ (/\ tasks[s] = NoTask
                    /\ tasks'[s].kind = "odds"
                    /\ tasks'[s].stack[2].fn = "fetchNbaOddsForEvent") =>
                      /\ tasks'[s].stack[2].i = 1
                      /\ tasks'[s].stack[2].acc.bookmakers = {}
                      /\ calls' = <<Desc("nbaOdds", tasks'[s].stack[2].arg.id,
                                         NBA_BOOKMAKERS[1])>>
                /\ NbaOddsCall(s) =>
                      LET g == tasks[s].stack[n - 1]
                          b == NBA_BOOKMAKERS[g.i]
                      IN  /\ Top(tasks[s]).arg = Desc("nbaOdds", g.arg.id, b)
                          /\ \A resp \in Responses(Top(tasks[s]).arg) :
                                Continue(s, resp) =>
                                   /\ Len(tasks'[s].stack) = n - 1
                                   /\ tasks'[s].wait = "sleep"
                                   /\ Top(tasks'[s]).i = g.i
                                   /\ Top(tasks'[s]).acc.bookmakers =
                                         g.acc.bookmakers \cup
                                         (IF resp.kind = "ok" /\ b \in resp.data.books
                                          THEN {b} ELSE {})
                                   /\ calls' = <<>>
                /\ (Paused(s, "fetchNbaOddsForEvent") /\ tasks'[s] # tasks[s]) =>
                      LET g == Top(tasks[s])
                      IN  IF g.i < Len(NBA_BOOKMAKERS) /\ Counted < MAX_CALLS_PER_HOUR
                          THEN /\ calls' = <<Desc("nbaOdds", g.arg.id,
                                                  NBA_BOOKMAKERS[g.i + 1])>>
                               /\ Len(tasks'[s].stack) = n + 1
                               /\ tasks'[s].stack[n].i = g.i + 1
                               /\ tasks'[s].stack[n].acc = g.acc
                          ELSE /\ calls' = <<>>
                               /\ Len(tasks'[s].stack) < n
                               /\ getNbaOdds(cache', g.arg.id) = g.acc
                /\ NbaFetchPending(s) =>
                      \A l \in NbaEventLists :
                         Continue(s, Response("ok", Data(TRUE, l, {}))) =>
                            getNbaEvents(cache').count = Len(l)]_vars

\* the first bookmaker gave no data, the second did, the snapshot is stored
C13_Witness ==
    /\ getNbaOdds(cache, "n1").bookmakers = {NBA_BOOKMAKERS[2]}
    /\ getNbaOdds(cache, "unknown") = NoSnapshot

(* C14: when the counter equals the limit and the window has not elapsed,  *)
(* fetchOddsForEvent issues no request and returns, and stores, a snapshot *)
(* without bookmaker keys; when the budget runs out during the pause after *)
(* a bookmaker, the call ends with what it has collected and asks no       *)
(* further bookmaker.                                                      *)
C14_ExhaustedStops ==
    [][/\ \A id \in DirectIds :
             /\ (Counted = MAX_CALLS_PER_HOUR /\ DirectFetchOdds("nba", id)) =>
                   /\ calls' = <<>>
                   /\ tasks' = tasks
                   /\ getNbaOdds(cache', id) = [bookmakers |-> {}]
                   /\ \E k \in 1..Len(out') :
                         /\ out'[k].event = "oddsUpdate"
                         /\ out'[k].id = id
                         /\ out'[k].snap = [bookmakers |-> {}]
             /\ (Counted = MAX_CALLS_PER_HOUR /\ DirectFetchOdds("football", id)) =>
                   /\ calls' = <<>>
                   /\ tasks' = tasks
                   /\ getFootballOdds(cache', id) = [bookmakers |-> {}]
                   /\ \E k \in 1..Len(out') :
                         /\ out'[k].event = "oddsUpdate"
                         /\ out'[k].id = id
                         /\ out'[k].snap = [bookmakers |-> {}]
       /\ \A s \in Slots :
             /\ (/\ Paused(s, "fetchNbaOddsForEvent")
                 /\ Counted = MAX_CALLS_PER_HOUR
                 /\ tasks'[s] # tasks[s]) =>
                   /\ calls' = <<>>
                   /\ Len(tasks'[s].stack) < Len(tasks[s].stack)
                   /\ getNbaOdds(cache', Top(tasks[s]).arg.id) = Top(tasks[s]).acc
             /\ (/\ Paused(s, "fetchFootballOddsForEvent")
                 /\ Counted = MAX_CALLS_PER_HOUR
                 /\ tasks'[s] # tasks[s]) =>
                   /\ calls' = <<>>
                   /\ Len(tasks'[s].stack) < Len(tasks[s].stack)
                   /\ getFootballOdds(cache', Top(tasks[s]).arg.id) =
                         Top(tasks[s]).acc]_vars

\* three calls on the cache used the whole budget: the events were fetched,
\* so the two odds fetches shared two requests and one of them was stopped
C14_Witness ==
    /\ quota = 0
    /\ InFlight = {}
    /\ cache.apiCallsThisHour = MAX_CALLS_PER_HOUR
    /\ cache.nbaEvents # <<>>
    /\ \E id \in DirectIds : id \in DOMAIN cache.footballOdds
    /\ \E id \in DirectIds : id \in DOMAIN cache.nbaOdds

(* C15: running out of budget is not an error.  In a step taken with the  *)
(* counter at the limit inside the window, no request is issued and the    *)
(* counter stays; lastError stays too, unless the step handles the answer  *)
(* of a pending request or throws on a null event.  A loop that finds the  *)
(* budget used up after its pause is left in that step: the call it would  *)
(* have made is not made later by that loop.                               *)
C15_ExhaustionIsNoError ==
    [][Counted = MAX_CALLS_PER_HOUR =>
          /\ calls' = <<>>
          /\ cache'.apiCallsThisHour = cache.apiCallsThisHour
          /\ (/\ ~Poisoned(cache.nbaEvents)
              /\ ~\E s \in Slots : tasks[s].wait = "io" /\ tasks'[s] # tasks[s]) =>
                cache'.lastError = cache.lastError
          /\ \A s \in Slots :
                (tasks[s].wait = "sleep" /\ tasks'[s] # tasks[s]) =>
                   Len(tasks'[s].stack) < Len(tasks[s].stack)]_vars

\* an NBA refresh was triggered with the budget used up: it ran from
\* refreshStart to nbaUpdate in one step, its events request rejected
C15_Witness ==
    /\ cache.apiCallsThisHour = MAX_CALLS_PER_HOUR
    /\ calls = <<>>
    /\ \E k \in 1..Len(out) : out[k].event = "refreshStart" /\ out[k].type = "nba"
    /\ \E k \in 1..Len(out) : out[k].event = "nbaUpdate" /\ out[k].room = "nba"
    /\ cache.lastError = NoError

NbaState(c) ==
    <<c.nbaEvents, c.nbaOdds, c.lastNbaEventsUpdate, c.lastNbaOddsUpdate>>

FootballState(c) ==
    <<c.footballEvents, c.footballOdds, c.lastFootballEventsUpdate,
      c.lastFootballOddsUpdate>>

\* the requests issued in the step are all of the sport
CallsOnly(o, whats) == \A k \in 1..Len(o) : o[k].what \in whats

(* C16: a refresh of type nba, from its trigger to its last step, leaves   *)
(* the football events, the football odds and both football timestamps as  *)
(* they are and issues no football request; a refresh of type football     *)
(* does the same for the NBA events, odds and timestamps.                  *)
C16_ScopedFrame ==
    [][/\ (AdminRefresh("nba") \/ RequestRefresh("nba")) =>
             /\ FootballState(cache') = FootballState(cache)
             /\ CallsOnly(calls', {"nbaEvents", "nbaOdds"})
       /\ (AdminRefresh("football") \/ RequestRefresh("football")) =>
             /\ NbaState(cache') = NbaState(cache)
             /\ CallsOnly(calls', {"footballEvents", "footballOdds"})
       /\ \A s \in Slots :
             /\ (tasks[s].kind = "nba" /\ tasks'[s] # tasks[s]) =>
                   /\ FootballState(cache') = FootballState(cache)
                   /\ CallsOnly(calls', {"nbaEvents", "nbaOdds"})
             /\ (tasks[s].kind = "football" /\ tasks'[s] # tasks[s]) =>
                   /\ NbaState(cache') = NbaState(cache)
                   /\ CallsOnly(calls', {"footballEvents", "footballOdds"})]_vars

\* a refresh of type nba has fetched events and stored the odds of an event
C16_Witness ==
    \E s \in Slots :
       /\ tasks[s].kind = "nba"
       /\ tasks[s].wait = "sleep"
       /\ \E k \in 1..Len(tasks[s].stack) : tasks[s].stack[k].fn = "refreshNbaOdds"
       /\ Top(tasks[s]).fn \notin OddsFetchers
       /\ cache.nbaOdds # << >>
       /\ cache.lastNbaEventsUpdate # NoTime

Refreshers == {"refreshNbaOdds", "refreshFootballOdds"}

\* the frame is in the odds loop of refreshNbaOdds / refreshFootballOdds:
\* fetchOddsForEvent is running for list[i], or the pause after it
InOddsLoop(f) ==
    f.fn \in Refreshers /\ f.pc \in {"l562", "l642", "slept"}

Fetching(f) == f.pc \in {"l562", "l642"}

\* the cached events the refresh of the frame orders
SourceEvents(c, f) ==
    IF f.fn = "refreshNbaOdds" THEN SeqToSet(c.nbaEvents)
    ELSE UNION { SeqToSet(c.footballEvents[k]) : k \in DOMAIN c.footballEvents }

Phase(task) ==
    IF ~HasFullCycle(task) THEN 0
    ELSE LET k == CHOOSE j \in 1..Len(task.stack) : task.stack[j].fn = "refreshAll"
             a == task.stack[k]
             inner == { j \in (k + 1)..Len(task.stack) :
                           task.stack[j].fn \in Refreshers }
             r == task.stack[CHOOSE j \in inner : TRUE]
         IN  IF a.pc = "l663" THEN 1
             ELSE IF a.pc = "l666"
                  THEN IF inner # {} /\ InOddsLoop(r) THEN 2 ELSE 1
             ELSE IF inner # {} /\ InOddsLoop(r) THEN 4 ELSE 3

PhaseOf(what) ==
    CASE what = "nbaEvents" -> 1
      [] what = "nbaOdds" -> 2
      [] what = "footballEvents" -> 3
      [] OTHER -> 4

\* the index in the league list of the league whose events are awaited
LeagueIndex(task) ==
    LET ls == Leagues(variant)
    IN  CHOOSE j \in 1..Len(ls) : ls[j] = Top(task).arg.id

(* C18: the requests of one full refresh cycle come in a fixed order: the  *)
(* NBA events, then the NBA odds, then the football events of the leagues  *)
(* in the order of the league list, then the football odds.  The cycle     *)
(* never goes back to an earlier stage, every request it issues belongs to *)
(* the stage it is in, and a league's events are requested after those of  *)
(* the leagues before it in the list.                                      *)
C18_CycleOrder ==
    [][\A s \in Slots :
          (HasFullCycle(tasks'[s]) /\ tasks'[s] # tasks[s]) =>
             /\ Phase(tasks[s]) <= Phase(tasks'[s])
             /\ \A k \in 1..Len(calls') : PhaseOf(calls'[k].what) = Phase(tasks'[s])
             /\ (FootballFetchPending(s) /\ tasks'[s].wait = "io"
                    /\ Top(tasks'[s]).arg.what = "footballEvents") =>
                   LeagueIndex(tasks'[s]) > LeagueIndex(tasks[s])]_vars

\* the cycle has fetched NBA events and odds and the events of the first
\* league and now waits for the events of the second league
C18_Witness ==
    \E s \in Slots :
       /\ HasFullCycle(tasks[s])
       /\ FootballFetchPending(s)
       /\ Top(tasks[s]).arg.id = OPTIC_FOOTBALL_LEAGUES[2]
       /\ cache.nbaOdds # << >>
       /\ OPTIC_FOOTBALL_LEAGUES[1] \in DOMAIN cache.footballEvents

FailedResponses(arg) == { r \in Responses(arg) : r.kind # "ok" }

ScopedTypes == {"nba", "football"}

ScopedTrigger(type) == AdminRefresh(type) \/ RequestRefresh(type)

(* C20: a refresh of type nba or football does not look at isRefreshing    *)
(* and does not write it.  A scoped trigger that arrives while the flag is *)
(* set, with budget left, issues its first events request and its chain    *)
(* is in flight; the trigger and every later step of a scoped chain leave  *)
(* the flag as it is.                                                      *)
C20_ScopedIgnoresFlag ==
    [][/\ \A type \in ScopedTypes :
             ScopedTrigger(type) =>
                /\ cache'.isRefreshing = cache.isRefreshing
                /\ (cache.isRefreshing /\ Counted < MAX_CALLS_PER_HOUR) =>
                      /\ Len(calls') = 1
                      /\ calls'[1].what =
                            IF type = "nba" THEN "nbaEvents" ELSE "footballEvents"
                      /\ \E s \in Slots : Idle(s) /\ tasks'[s].kind = type
       /\ \A s \in Slots :
             (tasks[s].kind \in ScopedTypes /\ tasks'[s] # tasks[s]) =>
                cache'.isRefreshing = cache.isRefreshing]_vars

\* a refresh of type nba has just been started while a full refresh cycle
\* is past its own NBA events request
C20_Witness ==
    \E s \in Slots, r \in Slots :
       /\ FullCycle(s)
       /\ Phase(tasks[s]) >= 2
       /\ cache.isRefreshing
       /\ tasks[r].kind = "nba"
       /\ tasks[r].wait = "io"
       /\ Top(tasks[r]).arg.what = "nbaEvents"
       /\ Len(calls) = 1
       /\ calls[1].what = "nbaEvents"

\* the snapshot stored for id by the method fn has changed in the step
OddsWritten(fn, id) == StoredOdds(cache', fn, id) # StoredOdds(cache, fn, id)

OddsKeys(c, fn) ==
    IF fn = "fetchNbaOddsForEvent" THEN DOMAIN c.nbaOdds ELSE DOMAIN c.footballOdds

(* C21: overlapping chains do not corrupt the cache.  In every state each  *)
(* cached events list is the complete list of one upstream response (or    *)
(* the initial empty list), and a stored odds snapshot is written only as  *)
(* the snapshot collected by one fetchOddsForEvent call for that event id: *)
(* the step that writes it resumes a chain holding such a call, and the    *)
(* value written is that call's own snapshot, whatever other calls for the *)
(* same id have collected or stored.                                       *)
C21_NoCorruption ==
    /\ [](/\ cache.nbaEvents \in NbaEventLists
          /\ \A l \in DOMAIN cache.footballEvents :
                cache.footballEvents[l] \in FootballEventLists)
    /\ [][\A fn \in OddsFetchers : \A id \in OddsKeys(cache', fn) :
             OddsWritten(fn, id) =>
                \/ \E s \in Slots : \E k \in Building(s) :
                      /\ tasks'[s] # tasks[s]
                      /\ tasks[s].stack[k].fn = fn
                      /\ tasks[s].stack[k].arg.id = id
                      /\ StoredOdds(cache', fn, id) = tasks[s].stack[k].acc
                \/ /\ tasks' = tasks
                   /\ StoredOdds(cache', fn, id).bookmakers = {}]_vars

\* a refresh and a direct call are both collecting a snapshot for the same
\* event, one has a bookmaker the other has not, and a snapshot is stored
C21_Witness ==
    \E s \in Slots, r \in Slots : \E k \in Building(s), j \in Building(r) :
       /\ s # r
       /\ tasks[s].kind = "nba"
       /\ tasks[s].stack[k].fn = tasks[r].stack[j].fn
       /\ tasks[s].stack[k].arg.id = tasks[r].stack[j].arg.id
       /\ tasks[s].stack[k].acc # tasks[r].stack[j].acc
       /\ cache.nbaEvents # <<>>

\* a trigger of the notifying server that starts a refresh of the type
RefreshTrigger(type) ==
    \/ AdminRefresh(type)
    \/ RequestRefresh(type)
    \/ (type = "all" /\ (Startup \/ Scheduler))

\* the event that reports the end of a refresh of the type
UpdateEvent(type) ==
    CASE type = "all" -> "refreshComplete"
      [] type = "nba" -> "nbaUpdate"
      [] OTHER -> "footballUpdate"

(* C22: for a refresh of any type started through the notifying server,    *)
(* the step of the trigger that issues the first upstream request or first *)
(* changes the cache has published refreshStart of that type, and the step *)
(* in which the refresh ends publishes its refreshComplete / update event  *)
(* with the events and odds of the cache as that step leaves them.         *)
C22_StartBeforeWork ==
    [][\A type \in RefreshTypes :
          /\ (RefreshTrigger(type) /\ (calls' # <<>> \/ cache' # cache)) =>
                \E k \in 1..Len(out') :
                   out'[k].event = "refreshStart" /\ out'[k].type = type
          /\ \A s \in Slots :
                (tasks[s].kind = type /\ tasks'[s] = NoTask) =>
                   \E k \in 1..Len(out') :
                      /\ out'[k].event = UpdateEvent(type)
                      /\ type = "all" => out'[k].status.isRefreshing = cache'.isRefreshing
                      /\ type = "nba" => NbaState(out'[k].cache) = NbaState(cache')
                      /\ type = "football" =>
                            FootballState(out'[k].cache) = FootballState(cache')]_vars

\* the method a wrapper of server.js decorates
Original(fn) ==
    CASE fn = "refreshAllW" -> "refreshAll"
      [] fn = "refreshNbaOddsW" -> "refreshNbaOdds"
      [] fn = "refreshFootballOddsW" -> "refreshFootballOdds"
      [] fn = "fetchNbaOddsForEventW" -> "fetchNbaOddsForEvent"
      [] fn = "fetchFootballOddsForEventW" -> "fetchFootballOddsForEvent"
      [] OTHER -> fn

\* the call chain as it is without the wrappers
Undecorated(stack) == SelectSeq(stack, LAMBDA f : Original(f.fn) = f.fn)

\* the run of the same chain on the same cache, with the same answer,
\* when server.js has installed no wrapper
PlainRun(stack, resp) ==
    Run([Machine(stack, resp, <<>>) EXCEPT !.decorated = FALSE])

SameAsPlain(st, s) ==
    /\ cache' = st.c
    /\ calls' = st.calls
    /\ Undecorated(tasks'[s].stack) = st.stack

(* C23: the wrappers do not influence the cache.  Every step of the        *)
(* decorated server (a trigger, an answered request, the end of a pause)   *)
(* leaves the cache - events, odds, timestamps, isRefreshing, lastError,   *)
(* call counter and window - as the same step of the undecorated           *)
(* operations leaves it, issues the same upstream requests and leaves the  *)
(* chain at the same place.                                                *)
C23_WrappersAreTransparent ==
    [][/\ \A s \in Slots :
             /\ tasks[s].wait = "io" =>
                   \A resp \in Responses(Top(tasks[s]).arg) :
                      Continue(s, resp) =>
                         SameAsPlain(PlainRun(Undecorated(tasks[s].stack), resp), s)
             /\ Wake(s) =>
                   SameAsPlain(PlainRun(Undecorated(tasks[s].stack), NoResponse), s)
       /\ \A type \in RefreshTypes :
             RefreshTrigger(type) =>
                \E st \in {PlainRun(<<Frame(Original(Root(type).fn), NoDesc)>>,
                                    NoResponse)} :
                   /\ cache' = st.c
                   /\ calls' = st.calls]_vars

\* the odds map the route reads
OddsMap(c, route) == IF route = "nbaOdds" THEN c.nbaOdds ELSE c.footballOdds

FetcherOf(route) ==
    IF route = "nbaOdds" THEN "fetchNbaOddsForEvent" ELSE "fetchFootballOddsForEvent"

\* the fetchOddsForEvent calls of the chain in slot s that end in the step
Completing(s) ==
    { k \in Building(s) :
         \/ k > Len(tasks'[s].stack)
         \/ tasks'[s].stack[k].fn # tasks[s].stack[k].fn }

(* C24: the odds accessor returns, for a non-empty event id, the snapshot  *)
(* of the fetchOddsForEvent call for that id that completed last, or null  *)
(* when none is stored.  A call that completes leaves its snapshot as the  *)
(* stored one; the stored snapshot of an id changes only in a step in      *)
(* which a call for that id completes; and the odds-by-event routes answer *)
(* 404 exactly when nothing is stored for the id, the stored snapshot      *)
(* otherwise.                                                              *)
C24_OddsByEvent ==
    [][/\ \A s \in Slots : \A k \in Completing(s) :
             StoredOdds(cache', tasks[s].stack[k].fn, tasks[s].stack[k].arg.id)
                = tasks[s].stack[k].acc
       /\ \A fn \in OddsFetchers : \A id \in OddsKeys(cache', fn) :
             OddsWritten(fn, id) =>
                \E s \in Slots : \E k \in Completing(s) :
                   tasks[s].stack[k].fn = fn /\ tasks[s].stack[k].arg.id = id
       /\ \A route \in {"nbaOdds", "footballOdds"} : \A id \in RouteIds :
             GetRoute(route, id) =>
                out' = << IF id \in DOMAIN OddsMap(cache, route)
                          THEN Reply("200", route, id, OddsMap(cache, route)[id],
                                     NoCache)
                          ELSE Reply("404", route, id, NoSnapshot, NoCache) >>]_vars

\* the route has just answered with a stored snapshot that holds no
\* bookmaker, while another id is unknown
C24_Witness ==
    /\ Len(out) = 1
    /\ out[1].event = "200"
    /\ out[1].type = "nbaOdds"
    /\ out[1].snap.bookmakers = {}
    /\ "zz" \notin DOMAIN cache.nbaOdds

\* what the cache stores: events, odds and their update timestamps
Stores(c) == <<NbaState(c), FootballState(c)>>

ReadRequest ==
    \/ StatusRequest
    \/ \E route \in Routes : \E param \in RouteParams(route) : GetRoute(route, param)

(* C25: reads are read-only.  getStatus, on any state, returns a cache     *)
(* with the same events, odds and update timestamps; a GET route leaves    *)
(* them as they are; and a step that changes any of them is the start of a *)
(* refresh (startup, admin refresh) or the continuation of a fetch or      *)
(* refresh chain.                                                          *)
C25_ReadsAreReadOnly ==
    /\ [](Stores(GetStatus(cache, now, variant).c) = Stores(cache))
    /\ [][/\ ReadRequest => Stores(cache') = Stores(cache)
          /\ Stores(cache') # Stores(cache) =>
                \/ Startup
                \/ \E type \in AdminTypes : AdminRefresh(type)
                \/ \E s \in Slots : Respond(s) \/ Wake(s)]_vars

\* a read of all NBA data has just been answered from a cache that holds
\* odds, while a chain is in flight
C25_Witness ==
    /\ Len(out) = 1
    /\ out[1].event = "200"
    /\ out[1].type = "nbaAll"
    /\ out[1].cache.nbaOdds # << >>
    /\ InFlight # {}

\* the chain an admin refresh of the type starts
AdminRoot(type) ==
    CASE type = "nba" -> "refreshNbaTrigger"
      [] type = "football" -> Method([decorated |-> decorated], "refreshFootballOdds")
      [] OTHER -> Method([decorated |-> decorated], "refreshAll")

AdminCalls(type) ==
    CASE type = "nba" -> {"nbaEvents"}
      [] type = "football" -> {"footballEvents"}
      [] OTHER -> {"nbaEvents"}

(* C26: POST /api/admin/refresh acknowledges before the work.  The first   *)
(* thing published in the step of the request is the response, which names *)
(* the requested type (all when none is given) whatever the state of the   *)
(* cache and the outcome of the refresh; everything else the step          *)
(* publishes, requests or starts comes after it.  Type nba starts the NBA  *)
(* events fetch followed by the NBA odds refresh, type football the        *)
(* football refresh, and any other or missing type the full refresh; the   *)
(* first request of the chain is the events request of that branch.        *)
C26_AckFirst ==
    [][\A type \in AdminTypes :
          AdminRefresh(type) =>
             /\ Len(out') >= 1
             /\ out'[1] = Acknowledgement(type)
             /\ \A k \in 2..Len(out') : out'[k].room # "http"
             /\ CallsOnly(calls', AdminCalls(type))
             /\ \A s \in Slots :
                   tasks'[s] # tasks[s] =>
                      /\ tasks'[s].stack[1].fn = AdminRoot(type)
                      /\ Len(calls') = 1
             /\ (type \notin {"nba", "football"} /\ cache.isRefreshing) =>
                   tasks' = tasks /\ calls' = <<>>]_vars

\* a request without a type has just been acknowledged and has started a
\* full refresh, whose refreshStart follows the response
C26_Witness ==
    /\ Len(out) = 2
    /\ out[1] = Acknowledgement("")
    /\ out[2].event = "refreshStart"
    /\ out[2].type = "all"
    /\ \E s \in Slots : FullCycle(s) /\ NbaFetchPending(s)
    /\ Len(calls) = 1

\* the error refreshAll records when its body throws
Thrown == [message |-> "TypeError", url |-> NoDesc]

(* C27: lastError holds the most recent error only.  It is null until an   *)
(* error is recorded and never null afterwards: a successful request       *)
(* leaves it as it is.  A failed request replaces it by the error of that  *)
(* request (or, when the same step goes on to throw, by the thrown error), *)
(* and it changes in no other way.                                         *)
C27_LastErrorIsLatest ==
    [][/\ cache.lastError # NoError => cache'.lastError # NoError
       /\ \A s \in Slots :
             tasks[s].wait = "io" =>
                \A resp \in Responses(Top(tasks[s]).arg) :
                   Continue(s, resp) =>
                      IF resp.kind # "ok"
                      THEN cache'.lastError \in
                              { [message |-> resp.kind, url |-> Top(tasks[s]).arg],
                                Thrown }
                      ELSE cache'.lastError \in {cache.lastError, Thrown}
       /\ (\A s \in Slots : ~Respond(s)) =>
             cache'.lastError \in {cache.lastError, Thrown}]_vars

\* the NBA events request of the cycle failed, a later odds request of the
\* same cycle succeeded, and lastError is still the events error
C27_Witness ==
    /\ cache.lastError.url.what = "nbaEvents"
    /\ \E id \in DOMAIN cache.nbaOdds : cache.nbaOdds[id].bookmakers # {}

\* the error fetchApi records when the key is missing
ConfigurationError == [message |-> "API key not configured", url |-> NoDesc]

\* a method of the cache is called, and the call begins with a fetch
FetchCalled ==
    \/ DirectFetchEvents
    \/ \E sport \in {"nba", "football"} : \E id \in DirectIds :
          DirectFetchOdds(sport, id)
    \/ DirectRefresh("football")
    \/ (cache.nbaEvents = <<>> /\ DirectRefresh("nba"))

(* C28: without an API key the quota-free cache issues no upstream         *)
(* request and counts none, in any step; no chain ever waits for an        *)
(* answer; the events lists stay as they are; every call that begins with  *)
(* a fetch leaves the configuration error in lastError; and an odds fetch  *)
(* returns a snapshot without bookmakers.                                  *)
C28_MissingKeyShortCircuits ==
    /\ [](~hasKey => \A s \in Slots : tasks[s].wait # "io")
    /\ [][~hasKey =>
             /\ calls' = <<>>
             /\ cache'.apiCallsThisHour = cache.apiCallsThisHour
             /\ cache'.nbaEvents = cache.nbaEvents
             /\ cache'.footballEvents = cache.footballEvents
             /\ FetchCalled => cache'.lastError = ConfigurationError
             /\ \A fn \in OddsFetchers : \A id \in OddsKeys(cache', fn) :
                   OddsWritten(fn, id) =>
                      StoredOdds(cache', fn, id).bookmakers = {}]_vars

\* without a key, fetches have been short-circuited: the error is recorded,
\* nothing is counted, and the football refresh is in its pause
C28_Witness ==
    /\ ~hasKey
    /\ cache.lastError = ConfigurationError
    /\ cache.apiCallsThisHour = 0
    /\ \E s \in Slots : Paused(s, "refreshFootballOdds")
    /\ cache.nbaOdds # << >>

EventIds(events) == { e.id : e \in SeqToSet(events) }

(* C29: odds entries are never deleted.  Every event id that has an entry  *)
(* in the NBA odds map, or in the football odds map, before a step has one *)
(* after it, whether or not the event is still in the cached events list.  *)
C29_OddsKeysOnlyGrow ==
    [][/\ DOMAIN cache.nbaOdds \subseteq DOMAIN cache'.nbaOdds
       /\ DOMAIN cache.footballOdds \subseteq DOMAIN cache'.footballOdds]_vars

\* the NBA events list was replaced after the odds refresh ended, the event
\* is no longer in it, and its odds entry is still there
C29_Witness ==
    /\ cache.lastNbaOddsUpdate # NoTime
    /\ cache.lastNbaEventsUpdate > cache.lastNbaOddsUpdate
    /\ \E id \in DOMAIN cache.nbaOdds : id \notin EventIds(cache.nbaEvents)

DirectFetcher(sport) ==
    IF sport = "nba" THEN "fetchNbaOddsForEvent" ELSE "fetchFootballOddsForEvent"

(* C30: an odds fetch that obtains nothing leaves the stored snapshot of   *)
(* the event as it was.  When fetchOddsForEvent is called for an event     *)
(* that has a stored snapshot with bookmakers, and the budget is used up   *)
(* at that moment, so that no request is issued, the stored snapshot is    *)
(* the same after the call.                                                *)
C30_FailedFetchKeepsOdds ==
    [][\A sport \in {"nba", "football"} : \A id \in DirectIds :
          (/\ DirectFetchOdds(sport, id)
           /\ Counted >= MAX_CALLS_PER_HOUR
           /\ StoredOdds(cache, DirectFetcher(sport), id) # NoSnapshot
           /\ StoredOdds(cache, DirectFetcher(sport), id).bookmakers # {}) =>
             /\ calls' = <<>>
             /\ StoredOdds(cache', DirectFetcher(sport), id) =
                   StoredOdds(cache, DirectFetcher(sport), id)]_vars

\* the sport a push event is about
SportOf(e) ==
    CASE e.event = "nbaUpdate" -> "nba"
      [] e.event = "footballUpdate" -> "football"
      [] OTHER -> e.type

\* the k-th event of o is scoped to a sport: an oddsUpdate, the refreshStart
\* of a scoped refresh, or an update that does not close a full refresh (the
\* two updates of a full refresh follow its refreshComplete)
ScopedPush(o, k) ==
    \/ o[k].event = "oddsUpdate"
    \/ o[k].event = "refreshStart" /\ o[k].type \in Sports
    \/ /\ o[k].event = "nbaUpdate"
       /\ ~(k > 1 /\ o[k - 1].event = "refreshComplete")
    \/ /\ o[k].event = "footballUpdate"
       /\ ~(k > 2 /\ o[k - 2].event = "refreshComplete")

\* C31: an event scoped to sport S (an oddsUpdate, the refreshStart or the
\* update of a scoped refresh) is delivered to exactly the sockets that have
\* subscribed to S; a socket subscribed only to the other sport, or to
\* nothing, does not receive it.
C31_ScopedEventsGoToSubscribers ==
    \A k \in 1..Len(out) :
        ScopedPush(out, k) =>
            /\ SportOf(out[k]) \in Sports
            /\ \A c \in Clients :
                   Receives(c, out[k]) <=> SportOf(out[k]) \in rooms[c]

\* socket 1 has subscribed to nba and socket 2 to football only, and an
\* oddsUpdate for an nba event has just been published
C31_Witness ==
    /\ rooms[1] = {"nba"}
    /\ rooms[2] = {"football"}
    /\ \E k \in 1..Len(out) :
           /\ out[k].event = "oddsUpdate"
           /\ out[k].type = "nba"
           /\ Receives(1, out[k])
           /\ ~Receives(2, out[k])

\* C32: whenever a refreshComplete event of type all has been published, no
\* full refresh is in flight: the status it carries has isRefreshing = false
\* and no chain is inside refreshAll, also when full-refresh triggers overlap.
C32_CompleteMeansNoCycle ==
    \A k \in 1..Len(out) :
        (out[k].event = "refreshComplete" /\ out[k].type = "all") =>
            /\ ~out[k].status.isRefreshing
            /\ ~cache.isRefreshing
            /\ \A s \in Slots : ~FullCycle(s)

\* C33: the call counter counts attempts. In every step the counter grows by
\* the number of upstream requests the step issues, counted from zero when the
\* step opens a new accounting window, and a step that only receives the
\* answer of a request, good or bad, leaves it alone; in the bounded variant
\* getRemainingCalls is the limit minus the requests of the current window
\* and lies between 0 and the limit.
C33_CounterCountsAttempts ==
    /\ [](variant = "bounded" =>
            /\ cache.apiCallsThisHour \in 0..MAX_CALLS_PER_HOUR
            /\ GetRemainingCalls(cache, now).remaining = MAX_CALLS_PER_HOUR - Counted
            /\ GetRemainingCalls(cache, now).remaining \in 0..MAX_CALLS_PER_HOUR)
    /\ [][/\ Len(calls') <= 1
          /\ IF cache'.hourStartTime # cache.hourStartTime
             THEN /\ Elapsed
                  /\ cache'.hourStartTime = now'
                  /\ cache'.apiCallsThisHour = Len(calls')
             ELSE cache'.apiCallsThisHour = cache.apiCallsThisHour + Len(calls')]_vars

\* in a window opened after the first, two requests have been counted and the
\* last answer received was a failure
C33_Witness ==
    /\ cache.hourStartTime > 0
    /\ cache.apiCallsThisHour = 2
    /\ cache.lastError # NoError
    /\ cache.lastError.message \in {"http", "net"}
    /\ calls = <<>>
    /\ GetRemainingCalls(cache, now).remaining = MAX_CALLS_PER_HOUR - 2

HasFrame(task, fn) == \E k \in 1..Len(task.stack) : task.stack[k].fn = fn

\* the NBA events requests among the requests o
NbaEventsCalls(o) == { k \in 1..Len(o) : o[k].what = "nbaEvents" }

\* chain s waits for the answer of the events fetch that precedes
\* refreshNbaOdds, in a full refresh or in a refresh of type nba
BeforeRefreshNba(s) ==
    /\ NbaFetchPending(s)
    /\ ~HasFrame(tasks[s], "refreshNbaOdds")
    /\ \/ HasFrame(tasks[s], "refreshAll")
       \/ HasFrame(tasks[s], "refreshNbaTrigger")
       \/ HasFrame(tasks[s], "refreshNbaTriggerGuarded")

\* a request made now is sent upstream
Issuable ==
    IF variant = "bounded" THEN CheckRateLimit(cache, now).ok ELSE hasKey

\* C34: once a refresh is under way, an NBA events request is issued in just
\* one case: the step enters refreshNbaOdds (the events fetch before it has
\* been answered, and the answer has not ended the chain with an exception)
\* and the cached list is empty at that entry.  So a full
\* refresh asks for the NBA events once when its first fetch leaves a
\* non-empty list and twice when it leaves the list empty, and never a third
\* time.
C34_OwnFetchIffEmpty ==
    [][\A s \in Slots :
          (Respond(s) \/ Wake(s)) =>
              /\ Cardinality(NbaEventsCalls(calls')) <= 1
              /\ NbaEventsCalls(calls') # {} <=>
                     /\ BeforeRefreshNba(s)
                     /\ tasks'[s].wait # "idle"
                     /\ cache'.nbaEvents = << >>
                     /\ Issuable]_vars

\* refreshNbaOdds of a full refresh waits for the events fetch of its own
C34_Witness ==
    \E s \in Slots :
        /\ NbaFetchPending(s)
        /\ HasFrame(tasks[s], "refreshNbaOdds")
        /\ HasFrame(tasks[s], "refreshAll")
        /\ cache.nbaEvents = << >>
        /\ cache.apiCallsThisHour = 2

\* the sport of a fetchOddsForEvent method
SportOfFetcher(fn) == IF fn = "fetchNbaOddsForEvent" THEN "nba" ELSE "football"

\* the events of o that announce the snapshot stored in c for the call of
\* frame f
Announces(o, c, f) ==
    { j \in PublishedIn(o, {"oddsUpdate"}) :
         /\ o[j].id = f.arg.id
         /\ o[j].type = SportOfFetcher(f.fn)
         /\ f.arg.id \in OddsKeys(c, f.fn)
         /\ o[j].snap = StoredOdds(c, f.fn, f.arg.id) }

\* C35: on the WebSocket server a step publishes one oddsUpdate for each
\* fetchOddsForEvent call that completes in it, whether the call was made
\* directly or from inside a refresh, and no other oddsUpdate: the event
\* names the id of the call and carries the snapshot that the odds map holds
\* for that id when the step ends.  A direct call that completes at once is
\* announced in the step of the call, one that suspends is not announced
\* before it completes.
C35_OneUpdatePerFetch ==
    [][/\ \A s \in Slots :
             (Respond(s) \/ Wake(s)) =>
                 /\ Cardinality(PublishedIn(out', {"oddsUpdate"}))
                       = Cardinality(Completing(s))
                 /\ \A k \in Completing(s) :
                        Cardinality(Announces(out', cache', tasks[s].stack[k])) = 1
       /\ \A sport \in Sports : \A id \in DirectIds :
             DirectFetchOdds(sport, id) =>
                 LET f == Frame(FetcherOf(IF sport = "nba" THEN "nbaOdds"
                                          ELSE "footballOdds"),
                                Desc(sport, id, ""))
                 IN  IF tasks' = tasks
                     THEN /\ Len(out') = 1
                          /\ Cardinality(Announces(out', cache', f)) = 1
                     ELSE PublishedIn(out', {"oddsUpdate"}) = {}
       /\ (DirectFetchEvents \/ \E sport \in Sports : DirectRefresh(sport)) =>
             PublishedIn(out', {"oddsUpdate"}) = {}]_vars

\* inside a refresh of the NBA odds the fetch for n1 has completed with a
\* bookmaker, and the oddsUpdate just published carries the stored snapshot
C35_Witness ==
    /\ \E s \in Slots : HasFrame(tasks[s], "refreshNbaOdds")
    /\ "n1" \in OddsKeys(cache, "fetchNbaOddsForEvent")
    /\ StoredOdds(cache, "fetchNbaOddsForEvent", "n1").bookmakers # {}
    /\ \E k \in 1..Len(out) :
          /\ out[k].event = "oddsUpdate"
          /\ out[k].id = "n1"
          /\ out[k].snap = StoredOdds(cache, "fetchNbaOddsForEvent", "n1")

\* the run of st to its next suspension raises an exception
RECURSIVE Throws(_)
Throws(st) ==
    \/ st.exc # "none"
    \/ /\ st.stack # <<>>
       /\ st.wait = "run"
       /\ Throws(Step1(st))

\* chain s has a pass over the NBA odds under way or about to begin
NbaPassAhead(s) == HasFrame(tasks[s], "refreshNbaOdds") \/ BeforeRefreshNba(s)

\* chain s has a pass over the football odds under way or still to come
FootballPassAhead(s) ==
    HasFrame(tasks[s], "refreshFootballOdds") \/ HasFrame(tasks[s], "refreshAll")

\* what the step of chain s, run without an exception, must have stamped
PassesStamped(s) ==
    /\ (NbaPassAhead(s) /\ ~HasFrame(tasks'[s], "refreshNbaOdds")) =>
           cache'.lastNbaOddsUpdate = now
    /\ (FootballPassAhead(s) /\ tasks'[s].wait = "idle") =>
           cache'.lastFootballOddsUpdate = now

\* C36: a pass of refreshNbaOdds / refreshFootballOdds that runs to its end
\* without an exception stamps lastNbaOddsUpdate / lastFootballOddsUpdate
\* with the time of its end, also when it fetched no odds - the list was
\* empty, every request failed, or the budget was used up so that the pass
\* began and ended in one step - and neither timestamp ever decreases.
C36_PassEndStamps ==
    [][/\ cache'.lastNbaOddsUpdate >= cache.lastNbaOddsUpdate
       /\ cache'.lastFootballOddsUpdate >= cache.lastFootballOddsUpdate
       /\ \A s \in Slots :
             /\ tasks[s].wait = "io" =>
                   \A resp \in Responses(Top(tasks[s]).arg) :
                      (Continue(s, resp)
                         /\ ~Throws(Machine(tasks[s].stack, resp, <<>>)))
                      => PassesStamped(s)
             /\ (Wake(s) /\ ~Throws(Machine(tasks[s].stack, NoResponse, <<>>)))
                   => PassesStamped(s)
       /\ \A type \in RefreshTypes :
             (/\ ScopedTrigger(type) \/ (type = "all" /\ FullTrigger)
              /\ tasks' = tasks
              /\ ~(type = "all" /\ cache.isRefreshing)
              /\ ~Throws(Machine(<<Root(type)>>, NoResponse, <<>>)))
             => /\ type \in {"nba", "all"} => cache'.lastNbaOddsUpdate = now
                /\ type \in {"football", "all"} =>
                      cache'.lastFootballOddsUpdate = now]_vars

\* in the second window the budget is used up and every request has failed:
\* both passes have ended and stamped the time without any odds stored
C36_Witness ==
    /\ now > 0
    /\ cache.hourStartTime = now
    /\ cache.apiCallsThisHour = MAX_CALLS_PER_HOUR
    /\ cache.nbaOdds = << >>
    /\ cache.footballOdds = << >>
    /\ cache.nbaEvents = << >>
    /\ cache.lastNbaOddsUpdate = now
    /\ cache.lastFootballOddsUpdate = now
    /\ \A s \in Slots : Idle(s)

TypeOK ==
    /\ now \in 0..MaxTime
    /\ cache.apiCallsThisHour \in 0..MAX_CALLS_PER_HOUR


====
